---- MODULE Spec2Model ----
(***************************************************************************)
(* A model of the EA -> PlantUML exporter: the monolith src/ea2puml.py     *)
(* (EAPlantUMLExporter) and the refactored package src/ea2puml/ (EAAdapter, *)
(* handler registry, handlers, PlantUMLWriter, run).                       *)
(*                                                                         *)
(* Text is modelled as a sequence of one-character strings, so that        *)
(* escaping, slugs, aliases and type tags are computed character by        *)
(* character as the code computes them.  Python's None is the one-element  *)
(* sequence None, which no text can equal (its element is not a single     *)
(* character).                                                             *)
(***************************************************************************)
EXTENDS Integers, Sequences, FiniteSets, TLC

VARIABLES
    cfg,        \* the options of the run (EAPlantUMLExporter.__init__ / Config)
    repo,       \* the external modelling tool: selection and diagrams
    entropy,    \* what the process draws from os.urandom and its string-hash seed
    pc,         \* position of export() / run()
    ex,         \* the exporter's collected data (monolith)
    lines,      \* the text built so far: a sequence of line records
    dm,         \* the Diagram built by EAAdapter (package)
    w,          \* the PlantUMLWriter (package)
    err,        \* the error a failed run ended with, "" when none
    fs,         \* the file system: directories and files of the output side
    run,        \* 1 for the first run over the input, 2 for the second
    prev        \* the text the first run produced

vars == <<cfg, repo, entropy, pc, ex, lines, dm, w, err, fs, run, prev>>

-----------------------------------------------------------------------------
(* Bounds of the model *)

\* os.urandom / hash() outcomes are drawn from 0..MaxRandom
MaxRandom == 1
\* rectangles of the geometry inputs: origin in 0..MaxCoord, sides in 0..MaxSize
MaxCoord == 1
MaxSize == 2
\* texts of the escaping inputs: every text over EscChars up to this length
MaxEscLen == 3
\* the three-shape layouts: squares of side BoxSide with origin in 0..BoxCoord
BoxCoord == 2
BoxSide == 2

-----------------------------------------------------------------------------
(* Characters and text *)

None == << "None" >>

DigitSeq == << "0", "1", "2", "3", "4", "5", "6", "7", "8", "9" >>
UpperSeq == << "A", "B", "C", "D", "E", "F", "G", "H", "I", "J", "K", "L", "M",
               "N", "O", "P", "Q", "R", "S", "T", "U", "V", "W", "X", "Y", "Z" >>
LowerSeq == << "a", "b", "c", "d", "e", "f", "g", "h", "i", "j", "k", "l", "m",
               "n", "o", "p", "q", "r", "s", "t", "u", "v", "w", "x", "y", "z" >>

Range(s) == { s[i] : i \in 1..Len(s) }
DigitChars == Range(DigitSeq)
AlnumChars == Range(UpperSeq) \cup Range(LowerSeq) \cup DigitChars
SpaceChars == { " ", "\t", "\n", "\r" }

Max(a, b) == IF a >= b THEN a ELSE b
Min(a, b) == IF a <= b THEN a ELSE b
Abs(a) == IF a < 0 THEN -a ELSE a

Take(s, n) == SubSeq(s, 1, Min(n, Len(s)))

\* Python truthiness of an optional text: None and "" are false
Truthy(t) == t # None /\ t # << >>
\* `x or d`
OrElse(x, d) == IF Truthy(x) THEN x ELSE d

\* str(n) of a natural number
RECURSIVE StrOfNat(_)
StrOfNat(n) ==
    IF n < 10 THEN << DigitSeq[n + 1] >>
    ELSE StrOfNat(n \div 10) \o << DigitSeq[(n % 10) + 1] >>

\* text.replace(c, r) for a one-character pattern c
RECURSIVE Replace(_, _, _)
Replace(s, c, r) ==
    IF s = << >> THEN << >>
    ELSE (IF Head(s) = c THEN r ELSE << Head(s) >>) \o Replace(Tail(s), c, r)

\* str.lower() on ASCII text
LowerChar(c) ==
    IF \E i \in 1..26 : UpperSeq[i] = c
    THEN LowerSeq[CHOOSE i \in 1..26 : UpperSeq[i] = c]
    ELSE c
Lower(s) == [ i \in 1..Len(s) |-> LowerChar(s[i]) ]

\* str.strip()
RECURSIVE LStrip(_)
LStrip(s) ==
    IF s # << >> /\ Head(s) \in SpaceChars THEN LStrip(Tail(s)) ELSE s
RECURSIVE RStrip(_)
RStrip(s) ==
    IF s # << >> /\ s[Len(s)] \in SpaceChars
    THEN RStrip(SubSeq(s, 1, Len(s) - 1)) ELSE s
Strip(s) == RStrip(LStrip(s))

\* re.sub(r"[^...]+", "_", s): every maximal run of characters outside
\* `keep` becomes one underscore
RECURSIVE SubRuns(_, _, _)
SubRuns(s, keep, inRun) ==
    IF s = << >> THEN << >>
    ELSE IF Head(s) \in keep THEN << Head(s) >> \o SubRuns(Tail(s), keep, FALSE)
    ELSE (IF inRun THEN << >> ELSE << "_" >>) \o SubRuns(Tail(s), keep, TRUE)

\* an insertion-ordered dict keyed by field k: d[key] = val keeps the
\* position of a key already present
DictHas(d, key) == \E i \in 1..Len(d) : d[i].k = key
DictGet(d, key) == d[CHOOSE i \in 1..Len(d) : d[i].k = key].v
DictPut(d, key, val) ==
    IF DictHas(d, key)
    THEN [ i \in 1..Len(d) |-> IF d[i].k = key THEN [k |-> key, v |-> val] ELSE d[i] ]
    ELSE Append(d, [k |-> key, v |-> val])

-----------------------------------------------------------------------------
(* Helpers: src/ea2puml.py 31-70, src/ea2puml/utils.py 6-38 *)

\* a slip: the quotes escaped first, their backslashes doubled afterwards
puml_escape_inline_QuotesFirst(text) ==
    IF text = None THEN << >>
    ELSE Replace(Replace(text, "\"", << "\\", "\"" >>), "\\", << "\\", "\\" >>)

puml_escape_inline(text) ==
    IF text = None THEN << >>
    ELSE Replace(Replace(text, "\\", << "\\", "\\" >>), "\"", << "\\", "\"" >>)

AliasMax == 16
HashMod == 100000000
SlugMax == 40

\* sanitize_alias(guid): with an empty guid the alias is drawn from
\* os.urandom; with a guid without alphanumerics it comes from hash(guid),
\* which depends on the process's hash seed.  ent.urandom is the stream of
\* draws this process still has, ent.hash its hash() of each text.
sanitize_alias(guid, ent) ==
    IF ~Truthy(guid)
    THEN [ alias |-> << "E", "_" >> \o StrOfNat(Abs(Head(ent.urandom))),
           ent   |-> [ent EXCEPT !.urandom = Tail(@)] ]
    ELSE LET g  == SelectSeq(guid, LAMBDA c : c \in AlnumChars)
             g2 == IF g = << >>
                   THEN << "E" >> \o StrOfNat(Abs(ent.hash[guid]) % HashMod)
                   ELSE g
         IN  [ alias |-> << "E", "_" >> \o Take(g2, AliasMax), ent |-> ent ]

slugify_name(name) ==
    LET s0 == SubRuns(Strip(OrElse(name, << >>)), AlnumChars \cup { "_" }, FALSE)
        s  == IF s0 = << >> \/ s0[1] \in DigitChars THEN << "E", "_" >> \o s0 ELSE s0
    IN  IF Len(s) > SlugMax THEN Take(s, SlugMax) ELSE s

\* a slip: the suffix counts the earlier shapes instead of this one
HumanAliasSuffixN(base, n) ==
    IF n = 0 THEN base ELSE base \o << "_" >> \o StrOfNat(n)

\* the alias of the (n+1)-th shape with slug `base`
HumanAlias(base, n) ==
    IF n = 0 THEN base ELSE base \o << "_" >> \o StrOfNat(n + 1)

CountsGet(counts, base) == IF base \in DOMAIN counts THEN counts[base] ELSE 0

\* AliasFactory.make: af = [mode, counts]; returns the alias, the factory
\* after the call and the entropy left
make(af, ent, guid, name) ==
    IF af.mode = "uuid"
    THEN LET r == sanitize_alias(guid, ent)
         IN  [ alias |-> r.alias, af |-> af, ent |-> r.ent ]
    ELSE IF af.mode = "human"
    THEN LET base == OrElse(slugify_name(name), << "E" >>)
             n    == CountsGet(af.counts, base)
         IN  [ alias |-> HumanAlias(base, n),
               af    |-> [af EXCEPT !.counts = (base :> (n + 1)) @@ @],
               ent   |-> ent ]
    ELSE [ alias |-> << >>, af |-> af, ent |-> ent ]

-----------------------------------------------------------------------------
(* Type tags and direction tags the code compares with *)

TPackage == << "P", "a", "c", "k", "a", "g", "e" >>
TClass == << "C", "l", "a", "s", "s" >>
TInterface == << "I", "n", "t", "e", "r", "f", "a", "c", "e" >>
TNote == << "N", "o", "t", "e" >>
TText == << "T", "e", "x", "t" >>
TActor == << "A", "c", "t", "o", "r" >>
TUMLDiagram == << "U", "M", "L", "D", "i", "a", "g", "r", "a", "m" >>

\* ea_color_long_to_hex: EA stores a colour as the number 0xBBGGRR
HexSeq == << "0", "1", "2", "3", "4", "5", "6", "7", "8", "9",
             "A", "B", "C", "D", "E", "F" >>
RECURSIVE HexOfNat(_)
HexOfNat(n) ==
    IF n < 16 THEN << HexSeq[n + 1] >>
    ELSE HexOfNat(n \div 16) \o << HexSeq[(n % 16) + 1] >>
ea_color_long_to_hex(ea_long) ==
    IF ea_long = -1 THEN None
    ELSE LET hx0 == HexOfNat(ea_long)
             pad == [ i \in 1..Max(0, 6 - Len(hx0)) |-> "0" ]
             hx  == pad \o SubSeq(hx0, Max(1, Len(hx0) - 5), Len(hx0))
         IN  << "#" >> \o SubSeq(hx, 5, 6) \o SubSeq(hx, 3, 4) \o SubSeq(hx, 1, 2)

-----------------------------------------------------------------------------
(* Geometry kernel: src/ea2puml.py 166-198 *)

rect(dobj, cornerX, cornerY) ==
    [ x |-> dobj.Left + cornerX,
      y |-> (-dobj.Top) + cornerY,
      w |-> dobj.Right - dobj.Left,
      h |-> -(dobj.Bottom - dobj.Top) ]

\* Python's // is floor division, as \div is
center(r) == << r.x + (r.w \div 2), r.y + (r.h \div 2) >>

area(r) == Max(0, r.w) * Max(0, r.h)

\* a slip: the test for an empty intersection left out
overlap_area_NoGuard(a, b) ==
    (Min(a.x + a.w, b.x + b.w) - Max(a.x, b.x))
    * (Min(a.y + a.h, b.y + b.h) - Max(a.y, b.y))

overlap_area(a, b) ==
    LET x1 == Max(a.x, b.x)
        y1 == Max(a.y, b.y)
        x2 == Min(a.x + a.w, b.x + b.w)
        y2 == Min(a.y + a.h, b.y + b.h)
    IN  IF x2 <= x1 \/ y2 <= y1 THEN 0 ELSE (x2 - x1) * (y2 - y1)

center_inside(inner_rect, outer_rect) ==
    LET c == center(inner_rect)
    IN  /\ c[1] >= outer_rect.x
        /\ c[2] >= outer_rect.y
        /\ c[1] <= outer_rect.x + outer_rect.w
        /\ c[2] <= outer_rect.y + outer_rect.h

\* a slip: the threshold strict, so that exactly half is not enough
inside_StrictThreshold(erect, preg) ==
    \/ center_inside(erect, preg)
    \/ 2 * overlap_area(erect, preg) > area(erect)

\* gather, lines 264-265: ov >= 0.5 * area, over integers (0.5 * n is exact)
inside(erect, preg) ==
    \/ center_inside(erect, preg)
    \/ 2 * overlap_area(erect, preg) >= area(erect)

-----------------------------------------------------------------------------
(* Gather: src/ea2puml.py 201-300 *)

\* a fresh EAPlantUMLExporter (__init__, lines 140-150)
NewExporter(c) ==
    [ alias_factory     |-> [ mode |-> c.alias_mode, counts |-> << >> ],
      elements          |-> << >>,
      connectors        |-> << >>,
      alias_by_guid     |-> << >>,
      packages          |-> << >>,
      members_in_pkg    |-> << >>,
      elemid_to_instuid |-> << >> ]

\* first pass, one DiagramObject (lines 213-245)
GatherObject(st, dObj, cornerX, cornerY, c) ==
    LET e         == st.ex
        inst_guid == dObj.InstanceGUID
        name      == OrElse(dObj.Name, << >>)
        m         == make(e.alias_factory, st.ent, inst_guid, name)
        r         == rect(dObj, cornerX, cornerY)
        bg        == IF c.include_colors
                     THEN ea_color_long_to_hex(dObj.BackgroundColor) ELSE None
        el        == [ guid       |-> inst_guid,
                       alias      |-> m.alias,
                       name       |-> name,
                       type       |-> OrElse(dObj.Type, << >>),
                       stereotype |-> OrElse(dObj.Stereotype, << >>),
                       notes      |-> OrElse(dObj.Notes, << >>),
                       show_tags  |-> dObj.ShowTags,
                       bg_hex     |-> bg,
                       tags       |-> dObj.TaggedValues,
                       rect       |-> r ]
    IN  [ ent |-> m.ent,
          ex  |-> [ e EXCEPT
            !.elemid_to_instuid =
                IF DictHas(@, dObj.ElementID) THEN @
                ELSE DictPut(@, dObj.ElementID, inst_guid),
            !.alias_factory = m.af,
            !.alias_by_guid = DictPut(@, inst_guid, m.alias),
            !.elements      = DictPut(@, inst_guid, el),
            !.packages      =
                IF el.type = TPackage
                THEN DictPut(@, inst_guid,
                             [ guid |-> inst_guid, name |-> el.name,
                               alias |-> m.alias, color |-> bg, rect |-> r ])
                ELSE @ ] ]

\* the members collected last first
MembersOf_Reversed(e, pkg) ==
    LET cand == SelectSeq(e.elements,
                    LAMBDA kv : kv.k # pkg.guid /\ inside(kv.v.rect, pkg.rect))
    IN  [ i \in 1..Len(cand) |-> cand[Len(cand) + 1 - i].k ]

\* second pass, one package (lines 257-268): the members in dict order
MembersOf(e, pkg) ==
    LET cand == SelectSeq(e.elements,
                    LAMBDA kv : kv.k # pkg.guid /\ inside(kv.v.rect, pkg.rect))
    IN  [ i \in 1..Len(cand) |-> cand[i].k ]

RECURSIVE Membership(_, _)
Membership(e, i) ==
    IF i > Len(e.packages) THEN e
    ELSE Membership(
           [ e EXCEPT !.members_in_pkg =
               DictPut(@, e.packages[i].k, MembersOf(e, e.packages[i].v)) ],
           i + 1)

\* resolve_endpoint_uid reading ClientID for both ends
resolve_endpoint_uid_ClientOnly(e, dlnk, which) ==
    LET uid == IF which = "source" THEN dlnk.SourceInstanceUID
               ELSE dlnk.TargetInstanceUID
    IN  IF Truthy(uid) /\ DictHas(e.elements, uid) THEN uid
        ELSE IF DictHas(e.elemid_to_instuid, dlnk.ClientID)
             THEN DictGet(e.elemid_to_instuid, dlnk.ClientID)
             ELSE None

\* resolve_endpoint_uid (lines 201-207)
resolve_endpoint_uid(e, dlnk, which) ==
    LET uid     == IF which = "source" THEN dlnk.SourceInstanceUID
                   ELSE dlnk.TargetInstanceUID
        elem_id == IF which = "source" THEN dlnk.ClientID ELSE dlnk.SupplierID
    IN  IF Truthy(uid) /\ DictHas(e.elements, uid) THEN uid
        ELSE IF DictHas(e.elemid_to_instuid, elem_id)
             THEN DictGet(e.elemid_to_instuid, elem_id)
             ELSE None

\* connectors, one DiagramLink (lines 272-296)
GatherLink(e, dLnk, c) ==
    LET source_uid == resolve_endpoint_uid(e, dLnk, "source")
        target_uid == resolve_endpoint_uid(e, dLnk, "target")
        conn == [ id            |-> StrOfNat(dLnk.ConnectorID),
                  name          |-> OrElse(dLnk.Name, << >>),
                  type          |-> OrElse(dLnk.Type, << >>),
                  stereotype    |-> OrElse(dLnk.Stereotype, << >>),
                  direction     |-> OrElse(dLnk.Direction,
                     << "U", "n", "s", "p", "e", "c", "i", "f", "i", "e", "d" >>),
                  source_uid    |-> source_uid,
                  target_uid    |-> target_uid,
                  line_hex      |-> IF c.include_colors
                                    THEN ea_color_long_to_hex(dLnk.LineColor)
                                    ELSE None,
                  hidden_labels |-> dLnk.HiddenLabels ]
    IN  IF dLnk.IsHidden THEN e
        ELSE IF ~Truthy(source_uid) \/ ~Truthy(target_uid) THEN e
        ELSE [ e EXCEPT !.connectors = DictPut(@, conn.id, conn) ]

RECURSIVE GatherLinks(_, _, _, _)
GatherLinks(e, links, i, c) ==
    IF i > Len(links) THEN e
    ELSE GatherLinks(GatherLink(e, links[i], c), links, i + 1, c)

\* gather(diagram, cornerX, cornerY): st = [ex, ent]; a shape of type
\* UMLDiagram is expanded in place, inside the first pass (lines 250-253)
RECURSIVE gather(_, _, _, _, _, _)
RECURSIVE GatherObjects(_, _, _, _, _, _, _)

\* lines 250-253, after the shape dObj is stored in s1
GatherNested(s1, rp, dObj, c) ==
    IF OrElse(dObj.Type, << >>) = TUMLDiagram
    THEN gather(s1, rp, rp.diagrams[dObj.SubDiagram], dObj.Left, -dObj.Top, c)
    ELSE s1

GatherObjects(st, rp, objs, i, cornerX, cornerY, c) ==
    IF i > Len(objs) THEN st
    ELSE GatherObjects(
           GatherNested(GatherObject(st, objs[i], cornerX, cornerY, c), rp, objs[i], c),
           rp, objs, i + 1, cornerX, cornerY, c)

\* the second pass and the connectors (lines 255-296), after the first pass
GatherRest(s1, diagram, c) ==
    [ ent |-> s1.ent,
      ex  |-> GatherLinks(Membership(s1.ex, 1), diagram.DiagramLinks, 1, c) ]

gather(st, rp, diagram, cornerX, cornerY, c) ==
    GatherRest(GatherObjects(st, rp, diagram.DiagramObjects, 1, cornerX, cornerY, c),
               diagram, c)

-----------------------------------------------------------------------------
(* Render: src/ea2puml.py 303-532.  A line of text is a record: k its     *)
(* kind, g the identities of the shapes or connector it was made for      *)
(* (not part of the text), t its text as a sequence of string pieces.     *)

Line(k, g, t) == [ k |-> k, g |-> g, t |-> t ]
Blank == Line("blank", << >>, << >>)
TextOf(ls) == [ i \in 1..Len(ls) |-> ls[i].t ]

RECURSIVE Flatten(_)
Flatten(ss) == IF ss = << >> THEN << >> ELSE Head(ss) \o Flatten(Tail(ss))

\* sep.join(parts) of texts
RECURSIVE Join(_, _)
Join(parts, sep) ==
    IF parts = << >> THEN << >>
    ELSE IF Len(parts) = 1 THEN parts[1]
    ELSE parts[1] \o sep \o Join(Tail(parts), sep)

\* text.splitlines(), for the line break "\n"
RECURSIVE SplitLines(_, _)
SplitLines(s, cur) ==
    IF s = << >> THEN (IF cur = << >> THEN << >> ELSE << cur >>)
    ELSE IF Head(s) = "\n" THEN << cur >> \o SplitLines(Tail(s), << >>)
    ELSE SplitLines(Tail(s), Append(cur, Head(s)))

\* `sub in s`
Contains(s, sub) ==
    \E i \in 0..(Len(s) - Len(sub)) : SubSeq(s, i + 1, i + Len(sub)) = sub
StartsWith(s, pre) == Len(s) >= Len(pre) /\ SubSeq(s, 1, Len(pre)) = pre

Quoted(text) == << "\"" >> \o puml_escape_inline(text) \o << "\"" >>

render_header(diagram, c) ==
    << Line("start", << >>, << "@startuml" >>),
       Line("title", << >>, << "title " >> \o Quoted(diagram.Name)) >>
    \o (IF c.direction = "LR"
        THEN << Line("direction", << >>, << "left to right direction" >>) >>
        ELSE IF c.direction = "TB"
        THEN << Line("direction", << >>,
                     << "' top to bottom direction (PlantUML default)" >>) >>
        ELSE << >>)
    \o (IF c.skin
        THEN << Blank,
                Line("skin", << >>, << "' --- optional skinparams ---" >>),
                Line("skin", << >>, << "skinparam defaultFontName Arial" >>),
                Line("skin", << >>, << "skinparam shadowing false" >>),
                Line("skin", << >>, << "skinparam classAttributeIconSize 0" >>),
                Line("skin", << >>, << "skinparam wrapWidth 200" >>),
                Line("skin", << >>, << "skinparam dpi 144" >>) >>
        ELSE << >>)
    \o (IF c.autolayout
        THEN << Blank, Line("autolayout", << >>, << "autolayout" >>) >>
        ELSE << >>)
    \o << Blank >>

render_footer == << Blank, Line("end", << >>, << "@enduml" >>), Blank >>

ref_token(el, c) ==
    IF c.alias_mode = "name" THEN Quoted(el.name) ELSE el.alias

ELEMENT_TYPE_TO_PUML(etype) ==
    CASE etype = TClass -> "class"
      [] etype = TInterface -> "interface"
      [] etype = << "E", "n", "u", "m", "e", "r", "a", "t", "i", "o", "n" >> -> "enum"
      [] etype = << "C", "o", "m", "p", "o", "n", "e", "n", "t" >> -> "component"
      [] etype = << "N", "o", "d", "e" >> -> "node"
      [] etype = << "A", "r", "t", "i", "f", "a", "c", "t" >> -> "artifact"
      [] etype = TActor -> "actor"
      [] etype = << "U", "s", "e", "C", "a", "s", "e" >> -> "usecase"
      [] etype = TPackage -> "package"
      [] etype = << "S", "t", "a", "t", "e" >> -> "state"
      [] etype = << "D", "e", "v", "i", "c", "e" >> -> "node"
      [] etype = TText -> "rectangle"
      [] etype = TNote -> "note"
      [] etype = << "B", "o", "u", "n", "d", "a", "r", "y" >> -> "rectangle"
      [] etype = << "A", "c", "t", "i", "v", "i", "t", "y" >> -> "rectangle"
      [] etype = << "R", "e", "q", "u", "i", "r", "e", "m", "e", "n", "t" >> -> "rectangle"
      [] etype = << "E", "n", "v", "i", "r", "o", "n", "m", "e", "n", "t" >> -> "frame"
      [] OTHER -> "rectangle"

\* element_decl: the declaration of one shape, one or more lines
element_decl(el, c) ==
    LET name    == el.name
        st      == el.stereotype
        etype   == el.type
        alias   == el.alias
        keyword == ELEMENT_TYPE_TO_PUML(etype)
        txt     == OrElse(el.notes, name)
        stereo_suffix ==
            IF c.element_stereo = "on" /\ Truthy(st)
            THEN << " <<" >> \o st \o << ">>" >> ELSE << >>
        name_disp ==
            IF c.element_stereo = "inname" /\ Truthy(st)
            THEN name \o << " <<" >> \o st \o << ">>" >> ELSE name
        disp    == Quoted(name_disp)
        color   == IF Truthy(el.bg_hex) THEN << " " >> \o el.bg_hex ELSE << >>
        as      == IF c.alias_mode = "name" THEN << >> ELSE << " as " >> \o alias
    IN  IF etype \in { TNote, TText }
        THEN << Line("note", << el.guid >>,
                     << "note as " >>
                     \o OrElse(alias, OrElse(slugify_name(name),
                                             << "N", "o", "t", "e", "_", "1" >>))) >>
             \o (IF Truthy(txt)
                 THEN LET body == SplitLines(txt, << >>)
                      IN  [ i \in 1..Len(body) |-> Line("notetext", << el.guid >>, body[i]) ]
                 ELSE << >>)
             \o << Line("endnote", << el.guid >>, << "end note" >>) >>
        ELSE IF etype = TInterface /\ c.interface_style = "lollipop"
        THEN << Line("decl", << el.guid >>, << "() " >> \o disp \o as \o color) >>
        ELSE << Line("decl", << el.guid >>,
                     << keyword >> \o stereo_suffix \o << " " >> \o disp \o as \o color) >>

\* the value a tagged value shows: Value, or Notes when Value is blank
TagValue(tv) ==
    IF tv.Value = None \/ Strip(tv.Value) = << >>
    THEN (IF Truthy(tv.Notes) /\ Strip(tv.Notes) # << >> THEN tv.Notes ELSE tv.Value)
    ELSE tv.Value

tag_block_for_element(el, c) ==
    LET tvs   == el.tags
        shown == SelectSeq(tvs, LAMBDA tv :
                     TagValue(tv) # None /\ Strip(TagValue(tv)) # << >>)
    IN  IF tvs = << >> THEN << >>
        ELSE IF ~(c.include_tags \/ el.show_tags) THEN << >>
        ELSE IF shown = << >> THEN << >>
        ELSE << Line("tagnote", << el.guid >>,
                     << "note right of " >> \o ref_token(el, c)) >>
             \o [ i \in 1..Len(shown) |->
                    Line("tag", << el.guid >>,
                         shown[i].Name \o << "=" >> \o TagValue(shown[i])) ]
             \o << Line("endnote", << el.guid >>, << "end note" >>) >>

\* a sort key with the coordinates swapped: (x, y)
pkg_key_le_XFirst(p, q) ==
    \/ p.rect.x < q.rect.x
    \/ (p.rect.x = q.rect.x /\ p.rect.y <= q.rect.y)

\* sorted(self.packages.values(), key=pkg_key): a stable sort by (y, x)
pkg_key_le(p, q) ==
    \/ p.rect.y < q.rect.y
    \/ (p.rect.y = q.rect.y /\ p.rect.x <= q.rect.x)

RECURSIVE SortInsert(_, _)
SortInsert(sorted, p) ==
    IF sorted = << >> THEN << p >>
    ELSE IF pkg_key_le(Head(sorted), p)
         THEN << Head(sorted) >> \o SortInsert(Tail(sorted), p)
         ELSE << p >> \o sorted

RECURSIVE SortPkgs(_, _)
SortPkgs(pkgs, i) ==
    IF i = 0 THEN << >> ELSE SortInsert(SortPkgs(pkgs, i - 1), pkgs[i].v)

sorted_pkgs(e) == SortPkgs(e.packages, Len(e.packages))

\* a slip: the block declares its members of type Package too
MemberLines_DeclaresPackages(e, guid, c) ==
    element_decl(DictGet(e.elements, guid), c)
    \o tag_block_for_element(DictGet(e.elements, guid), c)

\* the members a package block declares (lines 421-429)
MemberLines(e, guid, c) ==
    LET el == DictGet(e.elements, guid)
    IN  IF el.type = TPackage THEN << >>
        ELSE element_decl(el, c) \o tag_block_for_element(el, c)

MembersGet(e, pkg_guid) ==
    IF DictHas(e.members_in_pkg, pkg_guid)
    THEN DictGet(e.members_in_pkg, pkg_guid) ELSE << >>

\* one package block (lines 413-432)
PackageBlock(e, pkg, c) ==
    LET ms == MembersGet(e, pkg.guid)
    IN  << Line("pkg_open", << pkg.guid >>,
                << "package " >> \o Quoted(pkg.name)
                \o (IF Truthy(pkg.color) THEN << " " >> \o pkg.color ELSE << >>)
                \o << " {" >>) >>
        \o Flatten([ i \in 1..Len(ms) |-> MemberLines(e, ms[i], c) ])
        \o << Line("pkg_close", << pkg.guid >>, << "}" >>), Blank >>

\* the set `emitted` after the package loop (line 429)
Emitted(e) ==
    { g \in UNION { Range(MembersGet(e, e.packages[i].k)) : i \in 1..Len(e.packages) } :
        DictGet(e.elements, g).type # TPackage }

\* leftovers (lines 435-441)
LeftoverLines(e, kv, c) ==
    IF kv.v.type = TPackage \/ kv.k \in Emitted(e) THEN << >>
    ELSE element_decl(kv.v, c) \o tag_block_for_element(kv.v, c)

render_elements_grouped(e, c) ==
    LET ps == sorted_pkgs(e)
    IN  Flatten([ i \in 1..Len(ps) |-> PackageBlock(e, ps[i], c) ])
        \o Flatten([ i \in 1..Len(e.elements) |-> LeftoverLines(e, e.elements[i], c) ])
        \o << Blank >>

\* relation_for_type (lines 94-112): << line style, arrow head >>
relation_for_type(conn_type) ==
    LET t == Lower(OrElse(conn_type, << >>))
    IN  CASE t = << "a", "s", "s", "o", "c", "i", "a", "t", "i", "o", "n" >>
               -> << << "-", "-" >>, << ">" >> >>
          [] t = << "d", "e", "p", "e", "n", "d", "e", "n", "c", "y" >>
               -> << << ".", "." >>, << ">" >> >>
          [] t \in { << "r", "e", "a", "l", "i", "z", "a", "t", "i", "o", "n" >>,
                     << "r", "e", "a", "l", "i", "s", "a", "t", "i", "o", "n" >> }
               -> << << ".", "." >>, << "|", ">" >> >>
          [] t \in { << "g", "e", "n", "e", "r", "a", "l", "i", "z", "a", "t", "i", "o", "n" >>,
                     << "i", "n", "h", "e", "r", "i", "t", "a", "n", "c", "e" >> }
               -> << << "-", "-" >>, << "|", ">" >> >>
          [] t = << "a", "g", "g", "r", "e", "g", "a", "t", "i", "o", "n" >>
               -> << << "o", "-" >>, << ">" >> >>
          [] t = << "c", "o", "m", "p", "o", "s", "i", "t", "i", "o", "n" >>
               -> << << "*", "-" >>, << ">" >> >>
          [] t \in { << "i", "n", "f", "o", "r", "m", "a", "t", "i", "o", "n", "f", "l", "o", "w" >>,
                     << "i", "n", "f", "o", "r", "m", "a", "t", "i", "o", "n", " ", "f", "l", "o", "w" >> }
               -> << << ".", "." >>, << ">" >> >>
          [] t \in { << "c", "o", "n", "t", "r", "o", "l", "f", "l", "o", "w" >>,
                     << "c", "o", "n", "t", "r", "o", "l", " ", "f", "l", "o", "w" >>,
                     << "f", "l", "o", "w" >> }
               -> << << "-" >>, << "-", ">" >> >>
          [] OTHER -> << << "-", "-" >>, << ">" >> >>

\* the arrow of a connector before colouring (lines 457-466)
RelOf(conn) ==
    LET style == relation_for_type(conn.type)[1]
        head  == relation_for_type(conn.type)[2]
    IN  IF head = << "|", ">" >> THEN style \o head
        ELSE IF head = << "-", ">" >> THEN style \o << "-", ">" >>
        ELSE IF \/ Contains(conn.direction, << "S", "o", "u", "r", "c", "e" >>)
                \/ Contains(conn.direction,
                     << "B", "i", "-", "D", "i", "r", "e", "c", "t", "i", "o", "n", "a", "l" >>)
             THEN style \o head
             ELSE style \o << "-" >>

\* the arrow with the line colour put in (lines 468-478)
ColouredRel(rel, conn, c) ==
    LET hex == << "[" >> \o conn.line_hex \o << "]" >>
    IN  IF ~(c.include_colors /\ Truthy(conn.line_hex)) THEN rel
        ELSE IF StartsWith(rel, << "-", "-" >>)
             THEN << "-" >> \o hex \o << "-" >> \o SubSeq(rel, 3, Len(rel))
        ELSE IF StartsWith(rel, << ".", "." >>)
             THEN << "." >> \o hex \o << "." >> \o SubSeq(rel, 3, Len(rel))
        ELSE IF StartsWith(rel, << "*", "-" >>)
             THEN << "*" >> \o hex \o << "-" >> \o SubSeq(rel, 3, Len(rel))
        ELSE IF StartsWith(rel, << "o", "-" >>)
             THEN << "o" >> \o hex \o << "-" >> \o SubSeq(rel, 3, Len(rel))
        ELSE IF StartsWith(rel, << "-" >>)
             THEN << "-" >> \o hex \o SubSeq(rel, 2, Len(rel))
        ELSE rel

\* the label of a relation line (lines 480-485)
ConnectorLabel(conn, c) ==
    LET parts ==
            (IF c.edge_labels \in { "name", "both" } /\ ~conn.hidden_labels
                /\ Truthy(conn.name)
             THEN << conn.name >> ELSE << >>)
            \o (IF c.edge_labels \in { "stereotype", "both" } /\ Truthy(conn.stereotype)
                THEN << << "<<" >> \o conn.stereotype \o << ">>" >> >> ELSE << >>)
    IN  IF parts # << >> THEN << " : " >> \o Join(parts, << " " >>) ELSE << >>

\* one connector of render_connectors (lines 449-487)
ConnectorLines(e, conn, c) ==
    IF ~DictHas(e.elements, conn.source_uid) \/ ~DictHas(e.elements, conn.target_uid)
    THEN << >>
    ELSE LET src == ref_token(DictGet(e.elements, conn.source_uid), c)
             dst == ref_token(DictGet(e.elements, conn.target_uid), c)
         IN  << Line("rel", << conn.source_uid, conn.target_uid, conn.id >>,
                     src \o << " " >> \o ColouredRel(RelOf(conn), conn, c)
                     \o << " " >> \o dst \o ConnectorLabel(conn, c)) >>

render_connectors(e, c) ==
    Flatten([ i \in 1..Len(e.connectors) |-> ConnectorLines(e, e.connectors[i].v, c) ])
    \o << Blank >>

\* render_sequence (lines 498-532)
ParticipantLine(el, c) ==
    LET kw == IF Lower(el.type) = << "a", "c", "t", "o", "r" >>
              THEN "actor " ELSE "participant "
    IN  Line("participant", << el.guid >>,
             << kw >> \o Quoted(el.name)
             \o (IF c.alias_mode = "name" THEN << >>
                 ELSE << " as " >> \o ref_token(el, c)))

SequenceLabel(conn, c) ==
    LET parts ==
            (IF c.edge_labels \in { "name", "both" } /\ Truthy(conn.name)
             THEN << conn.name >> ELSE << >>)
            \o (IF c.edge_labels \in { "stereotype", "both" } /\ Truthy(conn.stereotype)
                THEN << << "<<" >> \o conn.stereotype \o << ">>" >> >> ELSE << >>)
    IN  IF parts # << >> THEN << " : " >> \o Join(parts, << " " >>) ELSE << >>

MessageLines(e, conn, c) ==
    IF ~DictHas(e.elements, conn.source_uid) \/ ~DictHas(e.elements, conn.target_uid)
    THEN << >>
    ELSE IF Lower(conn.type) \in { << "m", "e", "s", "s", "a", "g", "e" >>,
                                   << "s", "e", "q", "u", "e", "n", "c", "e" >> }
    THEN << Line("message", << conn.source_uid, conn.target_uid, conn.id >>,
                 ref_token(DictGet(e.elements, conn.source_uid), c) \o << " -> " >>
                 \o ref_token(DictGet(e.elements, conn.target_uid), c)
                 \o SequenceLabel(conn, c)) >>
    ELSE << >>

render_sequence(e, c) ==
    [ i \in 1..Len(e.elements) |-> ParticipantLine(e.elements[i].v, c) ]
    \o << Blank >>
    \o Flatten([ i \in 1..Len(e.connectors) |-> MessageLines(e, e.connectors[i].v, c) ])
    \o << Blank >>

is_sequence_diagram(diagram) ==
    Lower(OrElse(diagram.Type, << >>)) = << "s", "e", "q", "u", "e", "n", "c", "e" >>

\* the text export() builds (lines 540-548)
ExportLines(e, diagram, c) ==
    render_header(diagram, c)
    \o (IF is_sequence_diagram(diagram) THEN render_sequence(e, c)
        ELSE render_elements_grouped(e, c) \o render_connectors(e, c))
    \o render_footer

\* re.sub(r"[^A-Za-z0-9._-]+", "_", filename or (diagram.Name or "diagram"))
ExportBase(diagram, c) ==
    SubRuns(OrElse(c.filename,
                   OrElse(diagram.Name, << "d", "i", "a", "g", "r", "a", "m" >>)),
            AlnumChars \cup { ".", "_", "-" }, FALSE)

-----------------------------------------------------------------------------
(* The inputs: options, and what the modelling tool hands over *)

DefaultOptions ==
    [ include_tags    |-> FALSE,
      include_colors  |-> TRUE,
      element_stereo  |-> "off",
      edge_labels     |-> "both",
      direction       |-> "none",
      skin            |-> FALSE,
      autolayout      |-> FALSE,
      explore         |-> FALSE,
      alias_mode      |-> "human",
      interface_style |-> "lollipop",
      outdir          |-> "output",
      filename        |-> None ]

\* a DiagramObject with its model element: the rectangle (x, y, w, h) in
\* top-left coordinates is handed over in EA's convention (Top = -y,
\* Bottom = -(y + h))
DObj(guid, elemId, name, type, x, y, wd, ht) ==
    [ InstanceGUID    |-> guid,
      ElementID       |-> elemId,
      Name            |-> name,
      Type            |-> type,
      Stereotype      |-> << >>,
      Notes           |-> << >>,
      ShowTags        |-> FALSE,
      BackgroundColor |-> -1,
      TaggedValues    |-> << >>,
      SubDiagram      |-> 0,
      Left            |-> x,
      Right           |-> x + wd,
      Top             |-> -y,
      Bottom          |-> -(y + ht) ]

\* a DiagramLink with its connector
DLnk(cid, srcUid, dstUid, clientId, supplierId, type) ==
    [ ConnectorID       |-> cid,
      IsHidden          |-> FALSE,
      SourceInstanceUID |-> srcUid,
      TargetInstanceUID |-> dstUid,
      ClientID          |-> clientId,
      SupplierID        |-> supplierId,
      Name              |-> << >>,
      Type              |-> type,
      Stereotype        |-> << >>,
      Direction         |-> << "S", "o", "u", "r", "c", "e", " ", "-", ">", " ",
                               "D", "e", "s", "t", "i", "n", "a", "t", "i", "o", "n" >>,
      LineColor         |-> -1,
      HiddenLabels      |-> FALSE ]

Diagram(name, type, objs, lnks) ==
    [ Name |-> name, Type |-> type, DiagramObjects |-> objs, DiagramLinks |-> lnks ]

\* the tool with one diagram, selected in the browser (item type 8) and
\* open as the current diagram; selected = 0 or current = 0: none
Repo(diagram) ==
    [ available |-> TRUE, itemType |-> 8, selected |-> 1, current |-> 1,
      diagrams |-> << diagram >> ]

G1 == << "{", "A", "1", "}" >>
G2 == << "{", "B", "2", "}" >>
G3 == << "{", "C", "3", "}" >>
DLogical == << "L", "o", "g", "i", "c", "a", "l" >>
DSequence == << "S", "e", "q", "u", "e", "n", "c", "e" >>
NFoo == << "F", "o", "o" >>

AllObjects(rp) ==
    UNION { Range(rp.diagrams[i].DiagramObjects) : i \in 1..Len(rp.diagrams) }

\* what one process can draw: a value of os.urandom for each shape of uuid
\* mode without a guid, and a hash() for each guid without alphanumerics
EntropyFor(rp, c) ==
    LET guids   == { o.InstanceGUID : o \in AllObjects(rp) }
        nEmpty  == Cardinality({ o \in AllObjects(rp) : ~Truthy(o.InstanceGUID) })
        noAlnum == { g \in guids : Truthy(g) /\ SelectSeq(g, LAMBDA ch : ch \in AlnumChars) = << >> }
    IN  IF c.alias_mode = "uuid"
        THEN { [ urandom |-> u, hash |-> h ] :
                 u \in [ 1..nEmpty -> 0..MaxRandom ], h \in [ noAlnum -> 0..MaxRandom ] }
        ELSE { [ urandom |-> << >>, hash |-> << >> ] }

NoDiagram == [ built |-> FALSE ]
NoWriter == [ made |-> FALSE ]
EmptyFs == [ dirs |-> {}, files |-> << >> ]

\* the state before main() / run() starts, for an input (c, rp)
Start(c, rp) ==
    /\ cfg = c
    /\ repo = rp
    /\ entropy \in EntropyFor(rp, c)
    /\ pc = "new"
    /\ ex = NewExporter(c)
    /\ lines = << >>
    /\ dm = NoDiagram
    /\ w = NoWriter
    /\ err = ""
    /\ fs = EmptyFs
    /\ run = 1
    /\ prev = << >>

-----------------------------------------------------------------------------
(* export(): src/ea2puml.py 535-554, one action per stage *)

SelectedDiagram == repo.diagrams[repo.selected]

Fail(e) ==
    /\ pc' = "failed"
    /\ err' = e

\* connect_ea (lines 153-157): Dispatch raises when EA is not reachable
ConnectEA ==
    /\ pc = "new"
    /\ IF repo.available
       THEN pc' = "connected" /\ err' = err
       ELSE Fail("EA not reachable")
    /\ UNCHANGED << cfg, repo, entropy, ex, lines, dm, w, fs, run, prev >>

\* get_selected_diagram (lines 159-163)
GetSelectedDiagram ==
    /\ pc = "connected"
    /\ IF repo.itemType # 8
       THEN Fail("Please select a Diagram")
       ELSE pc' = "selected" /\ err' = err
    /\ UNCHANGED << cfg, repo, entropy, ex, lines, dm, w, fs, run, prev >>

\* self.gather(diagram) (line 538)
Gather ==
    /\ pc = "selected"
    /\ LET st == gather([ ex |-> ex, ent |-> entropy ], repo, SelectedDiagram, 0, 0, cfg)
       IN  ex' = st.ex /\ entropy' = st.ent
    /\ pc' = "gathered"
    /\ UNCHANGED << cfg, repo, lines, dm, w, err, fs, run, prev >>

\* lines 540-548
Render ==
    /\ pc = "gathered"
    /\ lines' = ExportLines(ex, SelectedDiagram, cfg)
    /\ pc' = "rendered"
    /\ UNCHANGED << cfg, repo, entropy, ex, dm, w, err, fs, run, prev >>

\* lines 549-554
WriteFile ==
    /\ pc = "rendered"
    /\ fs' = [ dirs  |-> fs.dirs \cup { cfg.outdir },
               files |-> DictPut(fs.files,
                                 [ dir  |-> cfg.outdir,
                                   name |-> ExportBase(SelectedDiagram, cfg)
                                            \o << ".puml" >> ],
                                 TextOf(lines)) ]
    /\ pc' = "done"
    /\ UNCHANGED << cfg, repo, entropy, ex, lines, dm, w, err, run, prev >>

\* the same command run again on the same input: a new process with a new
\* exporter; the text of the first run is kept for comparison
Rerun ==
    /\ pc = "done"
    /\ run = 1
    /\ run' = 2
    /\ prev' = TextOf(lines)
    /\ entropy' \in EntropyFor(repo, cfg)
    /\ ex' = NewExporter(cfg)
    /\ lines' = << >>
    /\ pc' = "new"
    /\ UNCHANGED << cfg, repo, dm, w, err, fs >>

NextExport ==
    \/ ConnectEA
    \/ GetSelectedDiagram
    \/ Gather
    \/ Render
    \/ WriteFile

NextTwice == NextExport \/ Rerun

-----------------------------------------------------------------------------
(* Aliases: three shapes with colliding names or GUIDs, every alias mode *)

Rep(ch, n) == [ i \in 1..n |-> ch ]

AliasNames ==
    { NFoo,
      << "F", "o", "o", "_", "2" >>,
      << "F", "o", "o", "!" >>,
      << " ", "F", "o", "o" >>,
      << "2", "x" >>,
      << >>,
      Rep("a", SlugMax + 1),
      Rep("a", SlugMax) \o << "b" >> }

AliasGuids ==
    { << >>,
      << "{", "-", "}" >>,
      G1,
      << "{", "A", "-", "1", "}" >>,
      << "{" >> \o Rep("0", AliasMax) \o << "-", "1", "}" >>,
      << "{" >> \o Rep("0", AliasMax) \o << "-", "2", "}" >> }

ThreeShapes(g, n) ==
    << DObj(g[1], 1, n[1], TClass, 0, 0, 2, 2),
       DObj(g[2], 2, n[2], TClass, 3, 0, 2, 2),
       DObj(g[3], 3, n[3], TClass, 6, 0, 2, 2) >>

InitAlias ==
    \/ \E g \in [ 1..3 -> AliasGuids ] :
          /\ \A i, j \in 1..3 : i # j => g[i] # g[j]
          /\ Start([ DefaultOptions EXCEPT !.alias_mode = "uuid" ],
                   Repo(Diagram(NFoo, DLogical,
                                ThreeShapes(g, << NFoo, NFoo, NFoo >>), << >>)))
    \/ \E mode \in { "human", "name" } :
       \E n \in [ 1..3 -> AliasNames ] :
          Start([ DefaultOptions EXCEPT !.alias_mode = mode ],
                Repo(Diagram(NFoo, DLogical,
                             ThreeShapes(<< G1, G2, G3 >>, n), << >>)))

SpecAlias == InitAlias /\ [][NextTwice]_vars


\* the shapes handed over, and the aliases the exporter gave them, in
\* ingestion order
Objects == SelectedDiagram.DiagramObjects
Gathered == pc \in { "gathered", "rendered", "done" }
AliasAt(i) == DictGet(ex.alias_by_guid, Objects[i].InstanceGUID)

\* C1: two export runs over the identical input and configuration produce
\* identical output text, in every alias mode.
C1_SecondRunSameText ==
    (run = 2 /\ pc \in { "rendered", "done" }) => TextOf(lines) = prev

\* C5: in readable (human) alias mode the first shape whose name slugifies
\* to base B gets alias B and the k-th shape (k >= 2) with that base gets
\* B_k.
C5_KthShapeGetsSuffixK ==
    (Gathered /\ cfg.alias_mode = "human") =>
        \A i \in 1..Len(Objects) :
            LET B == slugify_name(Objects[i].Name)
                k == Cardinality({ j \in 1..i : slugify_name(Objects[j].Name) = B })
            IN  AliasAt(i) = IF k = 1 THEN B ELSE B \o << "_" >> \o StrOfNat(k)

\* three shapes named Foo have got Foo, Foo_2 and Foo_3
C5_Witness ==
    /\ Gathered /\ cfg.alias_mode = "human"
    /\ \A i \in 1..3 : Objects[i].Name = NFoo
    /\ AliasAt(1) = NFoo
    /\ AliasAt(2) = << "F", "o", "o", "_", "2" >>
    /\ AliasAt(3) = << "F", "o", "o", "_", "3" >>

\* C6: within one run, in opaque (uuid) or readable (human) mode, shapes
\* with distinct GUIDs are allocated pairwise different aliases.
C6_AliasesPairwiseDifferent ==
    (Gathered /\ cfg.alias_mode \in { "uuid", "human" }) =>
        \A i, j \in 1..Len(Objects) : i # j => AliasAt(i) # AliasAt(j)

-----------------------------------------------------------------------------
(* Escaping: one shape, named as the diagram, over every short text with  *)
(* quotes and backslashes                                                 *)

EscChars == { "a", "\"", "\\" }
HeSaid == << "H", "e", " ", "s", "a", "i", "d", " ", "\"", "h", "i", "\"", "\\",
             "n", "o", "w" >>
HeSaidEscaped == << "H", "e", " ", "s", "a", "i", "d", " ", "\\", "\"", "h", "i",
                    "\\", "\"", "\\", "\\", "n", "o", "w" >>
EscTexts ==
    UNION { [ 1..n -> EscChars ] : n \in 0..MaxEscLen } \cup { None, HeSaid }

InitEscape ==
    \E t \in EscTexts :
    \E mode \in { "human", "name" } :
        Start([ DefaultOptions EXCEPT !.alias_mode = mode ],
              Repo(Diagram(t, DLogical, << DObj(G1, 1, t, TClass, 0, 0, 2, 2) >>, << >>)))

SpecEscape == InitEscape /\ [][NextExport]_vars

\* what the claim says of one character
EscapedChar(ch) ==
    IF ch = "\\" THEN << "\\", "\\" >>
    ELSE IF ch = "\"" THEN << "\\", "\"" >>
    ELSE << ch >>
EscapedText(t) ==
    IF t = None THEN << >> ELSE Flatten([ i \in 1..Len(t) |-> EscapedChar(t[i]) ])

\* C8: puml_escape_inline doubles every backslash and puts a backslash
\* before every double quote, without doubling the backslashes it adds for
\* quotes; He said "hi"\now becomes He said \"hi\"\\now; None gives "".
C8_EscapeQuotesAndBackslashes ==
    pc \in { "rendered", "done" } =>
        /\ lines[2].t = << "title ", "\"" >>
                        \o EscapedText(SelectedDiagram.Name) \o << "\"" >>
        /\ SelectedDiagram.Name = HeSaid =>
              lines[2].t = << "title ", "\"" >> \o HeSaidEscaped \o << "\"" >>
        /\ SelectedDiagram.Name = None => lines[2].t = << "title ", "\"", "\"" >>
        /\ \E i \in 1..Len(lines) :
              /\ lines[i].k = "decl"
              /\ StartsWith(lines[i].t,
                            << "class", " ", "\"" >>
                            \o EscapedText(Objects[1].Name) \o << "\"" >>)

\* the title line of the diagram named He said "hi"\now
C8_Witness ==
    /\ pc = "rendered"
    /\ SelectedDiagram.Name = HeSaid
    /\ lines[2].t = << "title ", "\"" >> \o HeSaidEscaped \o << "\"" >>

-----------------------------------------------------------------------------
(* Membership: one container and one other shape, every rectangle of the  *)
(* grid, degenerate ones included                                         *)

NP == << "P" >>
NQ == << "Q" >>
NS == << "S" >>

InitPair ==
    \E cx, cy, sx, sy \in 0..MaxCoord :
    \E cw, ch, sw, sh \in 0..MaxSize :
    \E st \in { TClass, TPackage } :
        Start(DefaultOptions,
              Repo(Diagram(NFoo, DLogical,
                           << DObj(G1, 1, NP, TPackage, cx, cy, cw, ch),
                              DObj(G2, 2, NS, st, sx, sy, sw, sh) >>,
                           << >>)))

SpecPair == InitPair /\ [][NextExport]_vars

ElementGuids == { ex.elements[i].k : i \in 1..Len(ex.elements) }
PackageGuids == { ex.packages[i].k : i \in 1..Len(ex.packages) }
RectOf(g) == DictGet(ex.elements, g).rect
IsMember(s, p) == s \in Range(MembersGet(ex, p))

\* the centroid of r lies in the closed bounds of o
CentroidIn(r, o) ==
    /\ o.x <= r.x + (r.w \div 2) /\ r.x + (r.w \div 2) <= o.x + o.w
    /\ o.y <= r.y + (r.h \div 2) /\ r.y + (r.h \div 2) <= o.y + o.h

\* C4: a shape S is a member of a container C (S # C) exactly when its
\* centroid lies inside C or twice their overlap is at least the area of S:
\* at exactly half it is a member, below half only with its centroid inside.
C4_MembershipRule ==
    Gathered =>
        \A p \in PackageGuids : \A s \in ElementGuids \ { p } :
            LET ov == overlap_area(RectOf(s), RectOf(p))
                ar == area(RectOf(s))
                ci == CentroidIn(RectOf(s), RectOf(p))
            IN  /\ 2 * ov = ar => IsMember(s, p)
                /\ 2 * ov < ar => (IsMember(s, p) <=> ci)
                /\ IsMember(s, p) <=> (ci \/ 2 * ov >= ar)

\* a shape of positive area, exactly half of it over the container, is a
\* member
C4_Witness ==
    /\ Gathered
    /\ area(RectOf(G2)) > 0
    /\ 2 * overlap_area(RectOf(G2), RectOf(G1)) = area(RectOf(G2))
    /\ IsMember(G2, G1)

-----------------------------------------------------------------------------
(* Grouping: three squares, each a package or a class, in every layout    *)

InitGroup ==
    \E x, y \in [ 1..3 -> 0..BoxCoord ] :
    \E t \in [ 1..3 -> { TPackage, TClass } ] :
        Start(DefaultOptions,
              Repo(Diagram(NFoo, DLogical,
                           << DObj(G1, 1, NP, t[1], x[1], y[1], BoxSide, BoxSide),
                              DObj(G2, 2, NQ, t[2], x[2], y[2], BoxSide, BoxSide),
                              DObj(G3, 3, NS, t[3], x[3], y[3], BoxSide, BoxSide) >>,
                           << >>)))

SpecGroup == InitGroup /\ [][NextExport]_vars

Rendered == pc \in { "rendered", "done" }
IsDeclaration(l) == l.k \in { "decl", "note" }

\* the packages whose block in the text `ls` declares shape g
BlocksDeclaring(ls, g) ==
    { ls[j].g[1] : j \in { j \in 1..Len(ls) :
        /\ ls[j].k = "pkg_open"
        /\ \E i \in (j + 1)..Len(ls) :
              /\ IsDeclaration(ls[i]) /\ ls[i].g = << g >>
              /\ \A m \in (j + 1)..(i - 1) : ls[m].k \notin { "pkg_open", "pkg_close" } } }

\* the containers shape s is a candidate member of
Candidates(s) == { p \in PackageGuids \ { s } : IsMember(s, p) }
KeyLE(p, q) ==
    \/ RectOf(p).y < RectOf(q).y
    \/ (RectOf(p).y = RectOf(q).y /\ RectOf(p).x <= RectOf(q).x)

\* the text the exporter builds from the shapes in another ingestion order
Permutations3 == { f \in [ 1..3 -> 1..3 ] : \A i, j \in 1..3 : i # j => f[i] # f[j] }
ExportOfOrder(f) ==
    LET d  == [ SelectedDiagram EXCEPT !.DiagramObjects = [ i \in 1..3 |-> Objects[f[i]] ] ]
        st == gather([ ex |-> NewExporter(cfg), ent |-> entropy ],
                     [ repo EXCEPT !.diagrams = << d >> ], d, 0, 0, cfg)
    IN  ExportLines(st.ex, d, cfg)

\* C2: a shape that is a candidate member of two or more containers is
\* assigned to the candidate that comes first by (top Y, then left X), and
\* to the same one in every order of ingestion.
C2_AssignedToFirstCandidate ==
    Rendered =>
        \A s \in ElementGuids :
            (DictGet(ex.elements, s).type # TPackage /\ Cardinality(Candidates(s)) >= 2) =>
                /\ \E p \in Candidates(s) :
                      /\ \A q \in Candidates(s) : KeyLE(p, q)
                      /\ BlocksDeclaring(lines, s) = { p }
                /\ \A f \in Permutations3 :
                      BlocksDeclaring(ExportOfOrder(f), s) = BlocksDeclaring(lines, s)

\* C3: every shape is declared inside at most one container block, also
\* when it is a candidate of several overlapping containers.
C3_DeclaredInAtMostOneBlock ==
    Rendered =>
        \A s \in ElementGuids : Cardinality(BlocksDeclaring(lines, s)) <= 1

-----------------------------------------------------------------------------
(* The package: src/ea2puml/ea_adapter.py, handler_registry.py,           *)
(* handlers/*.py, renderer.py, main.py.  An option that is None on the    *)
(* command line is "" here: the code only tests these for truth or for    *)
(* equality with a word.                                                  *)

PackageOptions ==
    [ outdir          |-> "output",
      filename        |-> None,
      no_colors       |-> FALSE,
      element_stereo  |-> "",
      edge_labels     |-> "",
      direction       |-> "",
      explore         |-> FALSE,
      skin            |-> "",
      autolayout      |-> "",
      alias_mode      |-> "",
      interface_style |-> "" ]

\* EAAdapter.get_selected_diagram, one DiagramObject (lines 39-57)
AdaptObject(st, d_obj, c) ==
    LET m == make(st.af, st.ent, d_obj.InstanceGUID, OrElse(d_obj.Name, << >>))
        elem == [ id         |-> d_obj.ElementID,
                  guid       |-> IF d_obj.InstanceGUID = None
                                 THEN << "N", "o", "n", "e" >>
                                 ELSE d_obj.InstanceGUID,
                  name       |-> OrElse(d_obj.Name, << >>),
                  type       |-> OrElse(d_obj.Type, << >>),
                  stereotype |-> OrElse(d_obj.Stereotype, None),
                  alias      |-> IF c.alias_mode # "name" THEN m.alias ELSE << >>,
                  geometry   |-> [ left |-> d_obj.Left, right |-> d_obj.Right,
                                   top |-> d_obj.Top, bottom |-> d_obj.Bottom ] ]
    IN  [ af |-> m.af, ent |-> m.ent, elements |-> Append(st.elements, elem) ]

RECURSIVE AdaptObjects(_, _, _, _)
AdaptObjects(st, objs, i, c) ==
    IF i > Len(objs) THEN st
    ELSE AdaptObjects(AdaptObject(st, objs[i], c), objs, i + 1, c)

\* lines 62-73
AdaptNotes(objs) ==
    LET ns == SelectSeq(objs, LAMBDA o : Lower(OrElse(o.Type, << >>))
                                \in { << "n", "o", "t", "e" >>, << "t", "e", "x", "t" >> })
    IN  [ i \in 1..Len(ns) |->
            [ id |-> ns[i].ElementID,
              text |-> OrElse(ns[i].Notes, OrElse(ns[i].Name, << >>)) ] ]

\* lines 75-87
AdaptLinks(lnks) ==
    [ i \in 1..Len(lnks) |->
        [ id         |-> lnks[i].ConnectorID,
          type       |-> OrElse(lnks[i].Type, << >>),
          stereotype |-> OrElse(lnks[i].Stereotype, None),
          source     |-> lnks[i].ClientID,
          target     |-> lnks[i].SupplierID,
          labels     |-> [ name |-> OrElse(lnks[i].Name, << >>) ] ] ]

\* get_selected_diagram (lines 29-92) on diagram `dia`
AdaptDiagram(dia, ent, c) ==
    LET st == AdaptObjects([ af |-> [ mode |-> IF c.alias_mode = "" THEN "human"
                                               ELSE c.alias_mode,
                                      counts |-> << >> ],
                             ent |-> ent, elements |-> << >> ],
                           dia.DiagramObjects, 1, c)
    IN  [ ent |-> st.ent,
          diagram |-> [ built      |-> TRUE,
                        name       |-> dia.Name,
                        type       |-> dia.Type,
                        elements   |-> st.elements,
                        connectors |-> AdaptLinks(dia.DiagramLinks),
                        notes      |-> AdaptNotes(dia.DiagramObjects),
                        direction  |-> "" ] ]

\* handler_registry: register(name) files the handler under
\* name.strip().lower() (lines 10-14); the three handlers register on import
register(ea_diagram_type) == Lower(Strip(ea_diagram_type))
REGISTRY ==
    { [ key |-> register(<< "C", "o", "m", "p", "o", "n", "e", "n", "t" >>),
        handler |-> "ComponentDiagramHandler" ],
      [ key |-> register(DSequence), handler |-> "SequenceDiagramHandler" ],
      [ key |-> register(<< "U", "s", "e", " ", "C", "a", "s", "e" >>),
        handler |-> "UseCaseDiagramHandler" ] }

\* resolve with a silent fallback to the component handler
resolve_FallsBack(diagram_type) ==
    LET key == Lower(Strip(OrElse(diagram_type, << >>)))
    IN  IF \E r \in REGISTRY : r.key = key
        THEN (CHOOSE r \in REGISTRY : r.key = key).handler
        ELSE "ComponentDiagramHandler"

\* resolve (lines 17-22): the handler, or "" for the KeyError
resolve(diagram_type) ==
    LET key == Lower(Strip(OrElse(diagram_type, << >>)))
    IN  IF \E r \in REGISTRY : r.key = key
        THEN (CHOOSE r \in REGISTRY : r.key = key).handler
        ELSE ""

\* PlantUMLWriter (renderer.py 11-51)
NewWriter(skin, autolayout) ==
    [ made |-> TRUE, buf |-> << >>, skin |-> skin, autolayout |-> autolayout,
      started |-> FALSE, ended |-> FALSE ]

\* a slip: start() without its guard, writing its lines at every call
WriterStart_EveryCall(wr, title) ==
    [ wr EXCEPT
        !.started = TRUE,
        !.buf = @ \o << Line("start", << >>, << "@startuml" >>) >>
                  \o (IF wr.skin # "" THEN << Line("skin", << >>, << wr.skin >>) >>
                      ELSE << >>)
                  \o (IF wr.autolayout # ""
                      THEN << Line("autolayout", << >>, << wr.autolayout >>) >>
                      ELSE << >>)
                  \o (IF Truthy(title)
                      THEN << Line("title", << >>, << "title " >> \o Quoted(title)) >>
                      ELSE << >>) ]

WriterStart(wr, title) ==
    IF wr.started THEN wr
    ELSE [ wr EXCEPT
             !.started = TRUE,
             !.buf = @ \o << Line("start", << >>, << "@startuml" >>) >>
                       \o (IF wr.skin # "" THEN << Line("skin", << >>, << wr.skin >>) >>
                           ELSE << >>)
                       \o (IF wr.autolayout # ""
                           THEN << Line("autolayout", << >>, << wr.autolayout >>) >>
                           ELSE << >>)
                       \o (IF Truthy(title)
                           THEN << Line("title", << >>, << "title " >> \o Quoted(title)) >>
                           ELSE << >>) ]

WriterExtend(wr, ls) == [ wr EXCEPT !.buf = @ \o ls ]

WriterEnd(wr) ==
    IF wr.ended THEN wr
    ELSE [ wr EXCEPT !.ended = TRUE,
                     !.buf = Append(@, Line("end", << >>, << "@enduml" >>)) ]

\* text(): the lines joined by "\n", and a last "\n" (an empty last line)
\* unless the buffer is empty or its last line ends with one
WriterText(wr) ==
    LET last == wr.buf[Len(wr.buf)].t
    IN  TextOf(wr.buf)
        \o (IF wr.buf # << >> /\ ~(last # << >> /\ last[Len(last)] = "\n")
            THEN << << >> >> ELSE << >>)

\* _index / idx.get (handlers): the last element with that id, if any
IndexHas(diagram, id) == \E i \in 1..Len(diagram.elements) : diagram.elements[i].id = id
IndexGet(diagram, id) ==
    diagram.elements[CHOOSE i \in 1..Len(diagram.elements) :
        /\ diagram.elements[i].id = id
        /\ \A j \in (i + 1)..Len(diagram.elements) : diagram.elements[j].id # id]

\* _ref (handlers, lines 12-15)
Ref(el, alias_mode) ==
    IF alias_mode = "name" THEN Quoted(el.name)
    ELSE IF Truthy(el.alias) THEN el.alias ELSE Quoted(el.name)

AsAlias(el, c) ==
    IF Truthy(el.alias) /\ c.alias_mode # "name" THEN << " as " >> \o el.alias ELSE << >>

\* the guard of the connector loops (component.py 36, sequence.py 42,
\* usecase.py 32): the connector is skipped
HandlerSkips(diagram, conn) ==
    ~IndexHas(diagram, conn.source) \/ ~IndexHas(diagram, conn.target)

\* one connector of a handler: crashed when _ref is reached with a missing
\* element (AttributeError on None)
HandlerConnector(diagram, conn, c, arrow, label) ==
    IF HandlerSkips(diagram, conn) THEN [ crashed |-> FALSE, lines |-> << >> ]
    ELSE IF ~IndexHas(diagram, conn.source) \/ ~IndexHas(diagram, conn.target)
    THEN [ crashed |-> TRUE, lines |-> << >> ]
    ELSE LET src_el == IndexGet(diagram, conn.source)
             dst_el == IndexGet(diagram, conn.target)
         IN  [ crashed |-> FALSE,
               lines |-> << Line("rel", << src_el.guid, dst_el.guid, StrOfNat(conn.id) >>,
                                 Ref(src_el, c.alias_mode) \o << arrow >>
                                 \o Ref(dst_el, c.alias_mode) \o label) >> ]

\* component.py 41-51
ComponentLabel(conn, c) ==
    LET parts ==
            (IF c.edge_labels \in { "name", "both" } /\ Truthy(conn.labels.name)
             THEN << conn.labels.name >> ELSE << >>)
            \o (IF c.edge_labels \in { "stereotype", "both" } /\ Truthy(conn.stereotype)
                THEN << << "<<" >> \o conn.stereotype \o << ">>" >> >> ELSE << >>)
    IN  IF parts # << >> THEN << " : " >> \o Join(parts, << " / " >>) ELSE << >>

\* sequence.py 46-48, usecase.py 36-37
NameLabel(conn) ==
    IF Truthy(conn.labels.name) THEN << " : " >> \o conn.labels.name ELSE << >>

\* the connector loop of a handler: the lines written until a crash
RECURSIVE HandlerConnectors(_, _, _, _, _)
HandlerConnectors(diagram, i, c, arrow, handler) ==
    IF i > Len(diagram.connectors) THEN [ crashed |-> FALSE, lines |-> << >> ]
    ELSE LET conn == diagram.connectors[i]
             r == HandlerConnector(diagram, conn, c, arrow,
                                   IF handler = "ComponentDiagramHandler"
                                   THEN ComponentLabel(conn, c) ELSE NameLabel(conn))
         IN  IF r.crashed THEN r
             ELSE LET rest == HandlerConnectors(diagram, i + 1, c, arrow, handler)
                  IN  [ crashed |-> rest.crashed, lines |-> r.lines \o rest.lines ]

IsActor(el) ==
    \/ Lower(OrElse(el.stereotype, << >>)) = << "a", "c", "t", "o", "r" >>
    \/ Lower(el.type) = << "a", "c", "t", "o", "r" >>

\* ComponentDiagramHandler.render (component.py 20-57)
ComponentRender(diagram, c) ==
    LET conns == HandlerConnectors(diagram, 1, c, " --> ", "ComponentDiagramHandler")
    IN  [ crashed |-> conns.crashed,
          lines |->
            (IF c.direction # "" THEN << Line("direction", << >>, << c.direction >>) >>
             ELSE << >>)
            \o [ i \in 1..Len(diagram.elements) |->
                   LET el == diagram.elements[i]
                   IN  Line("decl", << el.guid >>,
                            << "component " >> \o Quoted(el.name)
                            \o (IF Truthy(el.stereotype) /\ c.element_stereo # ""
                                THEN << " <<" >> \o el.stereotype \o << ">>" >> ELSE << >>)
                            \o AsAlias(el, c)) ]
            \o conns.lines
            \o (IF conns.crashed THEN << >>
                ELSE [ i \in 1..Len(diagram.notes) |->
                         Line("note", << >>,
                              << "note \"" >> \o diagram.notes[i].text \o << "\" as N" >>
                              \o StrOfNat(diagram.notes[i].id)) ]) ]

\* SequenceDiagramHandler.render (sequence.py 20-49)
SequenceRender(diagram, c) ==
    LET conns == HandlerConnectors(diagram, 1, c, " -> ", "SequenceDiagramHandler")
    IN  [ crashed |-> conns.crashed,
          lines |->
            [ i \in 1..Len(diagram.elements) |->
                LET el == diagram.elements[i]
                IN  Line("participant", << el.guid >>,
                         << IF IsActor(el) THEN "actor " ELSE "participant " >>
                         \o Quoted(el.name)
                         \o (IF c.alias_mode = "name" THEN << >>
                             ELSE << " as " >> \o el.alias)) ]
            \o << Blank >>
            \o conns.lines
            \o (IF conns.crashed THEN << >> ELSE << Blank >>) ]

\* UseCaseDiagramHandler.render (usecase.py 20-37)
UseCaseRender(diagram, c) ==
    LET conns == HandlerConnectors(diagram, 1, c, " --> ", "UseCaseDiagramHandler")
    IN  [ crashed |-> conns.crashed,
          lines |->
            [ i \in 1..Len(diagram.elements) |->
                LET el == diagram.elements[i]
                IN  Line("decl", << el.guid >>,
                         << IF IsActor(el) THEN "actor " ELSE "usecase " >>
                         \o Quoted(el.name) \o AsAlias(el, c)) ]
            \o conns.lines ]

HandlerRender(handler, diagram, c) ==
    CASE handler = "ComponentDiagramHandler" -> ComponentRender(diagram, c)
      [] handler = "SequenceDiagramHandler" -> SequenceRender(diagram, c)
      [] handler = "UseCaseDiagramHandler" -> UseCaseRender(diagram, c)

\* _sanitize_filename (main.py 14-17), for a text
sanitize_filename(name) ==
    OrElse(SubRuns(Strip(name), AlnumChars \cup { ".", "_", "-" }, FALSE),
           << "d", "i", "a", "g", "r", "a", "m" >>)

-----------------------------------------------------------------------------
(* run(cfg): src/ea2puml/main.py 19-34, one action per statement *)

CurrentDiagram == repo.diagrams[repo.current]

\* the state before run(cfg) starts, for an input (c, rp)
StartRun(c, rp) ==
    /\ cfg = c
    /\ repo = rp
    /\ entropy \in EntropyFor(rp, [ alias_mode |-> IF c.alias_mode = "" THEN "human"
                                                   ELSE c.alias_mode ])
    /\ pc = "run"
    /\ ex = NewExporter(DefaultOptions)
    /\ lines = << >>
    /\ dm = NoDiagram
    /\ w = NoWriter
    /\ err = ""
    /\ fs = EmptyFs
    /\ run = 1
    /\ prev = << >>

\* adapter.get_selected_diagram() (lines 20-21; ea_adapter.py 19-37 raise
\* RuntimeError without EA or without a current diagram), then the
\* direction hint (lines 23-24)
RunAdapter ==
    /\ pc = "run"
    /\ IF ~repo.available
       THEN Fail("EA not reachable") /\ UNCHANGED << dm, entropy >>
       ELSE IF repo.current = 0
       THEN Fail("No current diagram") /\ UNCHANGED << dm, entropy >>
       ELSE LET a == AdaptDiagram(CurrentDiagram, entropy, cfg)
            IN  /\ dm' = [ a.diagram EXCEPT !.direction = cfg.direction ]
                /\ entropy' = a.ent
                /\ pc' = "built"
                /\ err' = err
    /\ UNCHANGED << cfg, repo, ex, lines, w, fs, run, prev >>

\* Handler = resolve(diagram.type) (line 26)
RunResolve ==
    /\ pc = "built"
    /\ IF resolve(dm.type) = ""
       THEN Fail("No handler registered")
       ELSE pc' = "resolved" /\ err' = err
    /\ UNCHANGED << cfg, repo, entropy, ex, lines, dm, w, fs, run, prev >>

\* a writer that creates its file when it starts
RunStart_OpensFile ==
    /\ pc = "resolved"
    /\ w' = WriterStart(NewWriter(cfg.skin, cfg.autolayout), dm.name)
    /\ fs' = [ dirs  |-> fs.dirs \cup { cfg.outdir },
               files |-> DictPut(fs.files,
                                 [ dir |-> cfg.outdir, name |-> << ".puml" >> ],
                                 << >>) ]
    /\ pc' = "started"
    /\ UNCHANGED << cfg, repo, entropy, ex, lines, dm, err, run, prev >>

\* out = PlantUMLWriter(...); out.start(diagram.name) (lines 28-29)
RunStart ==
    /\ pc = "resolved"
    /\ w' = WriterStart(NewWriter(cfg.skin, cfg.autolayout), dm.name)
    /\ pc' = "started"
    /\ UNCHANGED << cfg, repo, entropy, ex, lines, dm, err, fs, run, prev >>

\* Handler.render(diagram, out, cfg) (line 30)
RunRender ==
    /\ pc = "started"
    /\ LET r == HandlerRender(resolve(dm.type), dm, cfg)
       IN  /\ w' = WriterExtend(w, r.lines)
           /\ IF r.crashed
              THEN Fail("AttributeError")
              ELSE pc' = "handled" /\ err' = err
    /\ UNCHANGED << cfg, repo, entropy, ex, lines, dm, fs, run, prev >>

\* out.end() (line 31)
RunEnd ==
    /\ pc = "handled"
    /\ w' = WriterEnd(w)
    /\ pc' = "ended"
    /\ UNCHANGED << cfg, repo, entropy, ex, lines, dm, err, fs, run, prev >>

\* fname = cfg.filename or _sanitize_filename(diagram.name) (line 33):
\* a name that is None has no strip()
RunFilename ==
    /\ pc = "ended"
    /\ IF ~Truthy(cfg.filename) /\ dm.name = None
       THEN Fail("AttributeError")
       ELSE pc' = "named" /\ err' = err
    /\ UNCHANGED << cfg, repo, entropy, ex, lines, dm, w, fs, run, prev >>

fname == IF Truthy(cfg.filename) THEN cfg.filename ELSE sanitize_filename(dm.name)

\* out.save(cfg.outdir, fname) (line 34; renderer.py 46-51)
RunSave ==
    /\ pc = "named"
    /\ fs' = [ dirs  |-> fs.dirs \cup { cfg.outdir },
               files |-> DictPut(fs.files,
                                 [ dir |-> cfg.outdir, name |-> fname \o << ".puml" >> ],
                                 WriterText(w)) ]
    /\ pc' = "done"
    /\ UNCHANGED << cfg, repo, entropy, ex, lines, dm, w, err, run, prev >>

NextRun ==
    \/ RunAdapter
    \/ RunResolve
    \/ RunStart
    \/ RunRender
    \/ RunEnd
    \/ RunFilename
    \/ RunSave

-----------------------------------------------------------------------------
(* Connectors: shapes A and B, a link whose two ends are named by any     *)
(* combination of instance UID and element id, known or not, before a     *)
(* link from A to B; both programs                                        *)

MaxId == 3

DComponent == << "C", "o", "m", "p", "o", "n", "e", "n", "t" >>
DUseCase == << "U", "s", "e", " ", "C", "a", "s", "e" >>
TAssociation == << "A", "s", "s", "o", "c", "i", "a", "t", "i", "o", "n" >>
TMessage == << "M", "e", "s", "s", "a", "g", "e" >>

LinkShapes ==
    << DObj(G1, 1, << "A" >>, TClass, 0, 0, 1, 1),
       DObj(G2, 2, << "B" >>, TClass, 0, 0, 1, 1) >>

InitLinks ==
    \E su \in { G1, G2, G3, << >> }, tu \in { G1, G2, G3, << >> },
       ci \in 1..MaxId, si \in 1..MaxId, hidden \in BOOLEAN,
       lt \in { TAssociation, TMessage } :
        LET l7 == [ DLnk(7, su, tu, ci, si, lt) EXCEPT !.IsHidden = hidden ]
            l8 == DLnk(8, G1, G2, 1, 2, lt)
        IN  \/ \E dt \in { DLogical, DSequence } :
                 Start(DefaultOptions, Repo(Diagram(NFoo, dt, LinkShapes, << l7, l8 >>)))
            \/ \E dt \in { DComponent, DSequence, DUseCase } :
                 StartRun(PackageOptions,
                          Repo(Diagram(NFoo, dt, LinkShapes, << l7, l8 >>)))

SpecLinks == InitLinks /\ [][NextExport \/ NextRun]_vars

\* which program the state belongs to, and the lines it has produced
IsPackage == pc = "run" \/ dm.built
Output == IF w.made THEN w.buf ELSE lines
OutputComplete ==
    IF IsPackage THEN pc \in { "handled", "ended", "named", "done" }
    ELSE pc \in { "rendered", "done" }

InputDiagram == repo.diagrams[1]
InputShapes == Range(InputDiagram.DiagramObjects)
InputLinks == Range(InputDiagram.DiagramLinks)

\* an end of a link names a shape of the diagram: by element id in the
\* package; by instance UID, or else by element id, in the monolith
EndResolves(uid, elemId) ==
    IF IsPackage THEN \E o \in InputShapes : o.ElementID = elemId
    ELSE \/ Truthy(uid) /\ \E o \in InputShapes : o.InstanceGUID = uid
         \/ \E o \in InputShapes : o.ElementID = elemId /\ Truthy(o.InstanceGUID)

Dangling(l) ==
    \/ ~EndResolves(l.SourceInstanceUID, l.ClientID)
    \/ ~EndResolves(l.TargetInstanceUID, l.SupplierID)

RelationLines ==
    { i \in 1..Len(Output) : Output[i].k \in { "rel", "message" } }

LinesOf(l) ==
    { i \in RelationLines : Output[i].g[3] = StrOfNat(l.ConnectorID) }

\* C7: a connector with an end that does not resolve to a shape of the
\* diagram produces no line and no error, and every relation line joins two
\* shapes of the model.
C7_DanglingConnectorOmitted ==
    /\ pc # "failed"
    /\ OutputComplete =>
        /\ \A l \in InputLinks : Dangling(l) => LinesOf(l) = {}
        /\ \A i \in RelationLines :
             /\ \E o \in InputShapes : o.InstanceGUID = Output[i].g[1]
             /\ \E o \in InputShapes : o.InstanceGUID = Output[i].g[2]

C7_Witness ==
    /\ pc = "done"
    /\ \E l \in InputLinks :
         /\ ~l.IsHidden
         /\ EndResolves(l.SourceInstanceUID, l.ClientID)
         /\ ~EndResolves(l.TargetInstanceUID, l.SupplierID)
         /\ LinesOf(l) = {}
    /\ RelationLines # {}

-----------------------------------------------------------------------------
(* The pipeline: every type tag, with and without EA, a diagram, a name   *)
(* and a file name; both programs                                         *)

TypeTags ==
    { DComponent, DSequence, DUseCase, DLogical,
      << " ", "c", "o", "m", "p", "o", "n", "e", "n", "t", " " >>,
      << "U", "s", "e", "c", "a", "s", "e" >>,
      << >>,
      None }

RunDiagram(name, type) ==
    Diagram(name, type, LinkShapes, << DLnk(8, G1, G2, 1, 2, TAssociation) >>)

InitRun ==
    \E available \in BOOLEAN, name \in { NFoo, << >>, None },
       filename \in { None, << "o", "u", "t" >> } :
        \/ \E type \in TypeTags, current \in { 0, 1 },
              direction \in { "", "left to right direction" } :
             StartRun([ PackageOptions EXCEPT !.filename = filename,
                                              !.direction = direction ],
                      [ Repo(RunDiagram(name, type)) EXCEPT
                          !.available = available, !.current = current ])
        \/ \E type \in { DLogical, DSequence }, itemType \in { 8, 5 } :
             Start([ DefaultOptions EXCEPT !.filename = filename ],
                   [ Repo(RunDiagram(name, type)) EXCEPT
                       !.available = available, !.itemType = itemType ])

SpecRun == InitRun /\ [][NextExport \/ NextRun]_vars

\* the type tags with a handler: Component, Sequence and Use Case, in any
\* case and with any blanks around
Registered(type) ==
    Lower(Strip(OrElse(type, << >>)))
        \in { << "c", "o", "m", "p", "o", "n", "e", "n", "t" >>,
              << "s", "e", "q", "u", "e", "n", "c", "e" >>,
              << "u", "s", "e", " ", "c", "a", "s", "e" >> }

\* C9: when the diagram's type tag has no registered handler, run() fails
\* with "No handler registered" at its next step, before a writer exists,
\* and no file is created.
C9_UnknownTypeFailsBeforeSave ==
    /\ [](dm.built /\ ~Registered(dm.type) =>
            /\ pc \in { "built", "failed" }
            /\ pc = "failed" => err = "No handler registered"
            /\ ~w.made
            /\ fs = EmptyFs)
    /\ [][pc = "built" /\ ~Registered(dm.type) =>
            pc' = "failed" /\ err' = "No handler registered"]_vars

C9_Witness ==
    /\ dm.built
    /\ dm.type = DLogical
    /\ pc = "failed"
    /\ err = "No handler registered"
    /\ fs = EmptyFs

\* C10: the file is written only after every stage has succeeded: until the
\* run is done the file system is unchanged, a failed run included, and a
\* file that exists holds the whole text of a run without error.
C10_WrittenOnlyAfterAllStages ==
    /\ pc # "done" => fs = EmptyFs
    /\ fs # EmptyFs =>
        /\ err = ""
        /\ Len(fs.files) = 1
        /\ IsPackage =>
            /\ Registered(dm.type)
            /\ w.started /\ w.ended
            /\ fs.files[1].v = WriterText(w)
            /\ w.buf[1].k = "start" /\ w.buf[Len(w.buf)].k = "end"
        /\ ~IsPackage =>
            /\ fs.files[1].v = TextOf(lines)
            /\ lines[1].k = "start" /\ \E i \in 1..Len(lines) : lines[i].k = "end"

C10_Witness ==
    /\ pc = "failed"
    /\ dm.built
    /\ fs = EmptyFs

-----------------------------------------------------------------------------
(* Order of the grouped text: SpecGroup *)

\* the packages of the blocks of text `ls`, in the order of the blocks
BlockOrder(ls) ==
    LET opens == SelectSeq(ls, LAMBDA l : l.k = "pkg_open")
    IN  [ i \in 1..Len(opens) |-> opens[i].g[1] ]

\* the blocks come by ascending top edge, then ascending left edge
BlocksAscending ==
    \A i, j \in 1..Len(BlockOrder(lines)) :
        i < j => KeyLE(BlockOrder(lines)[i], BlockOrder(lines)[j])

IngestIndex(g) == CHOOSE i \in 1..Len(ex.elements) : ex.elements[i].k = g

SameCorner(p, q) == RectOf(p).x = RectOf(q).x /\ RectOf(p).y = RectOf(q).y

InputOrder == [ i \in 1..Len(Objects) |-> Objects[i].InstanceGUID ]
IsPackageShape(g) == DictGet(ex.elements, g).type = TPackage

\* the shapes declared by the lines from..to of the text, in order
DeclaredIn(ls, from, to) ==
    LET part == SelectSeq(SubSeq(ls, from, to), IsDeclaration)
    IN  [ i \in 1..Len(part) |-> part[i].g[1] ]

BlockOpens == { j \in 1..Len(lines) : lines[j].k = "pkg_open" }
BlockClose(j) ==
    CHOOSE i \in (j + 1)..Len(lines) :
        /\ lines[i].k = "pkg_close"
        /\ \A m \in (j + 1)..(i - 1) : lines[m].k # "pkg_close"
LastClose ==
    IF BlockOpens = {} THEN 0
    ELSE CHOOSE i \in 1..Len(lines) :
            /\ lines[i].k = "pkg_close"
            /\ \A m \in (i + 1)..Len(lines) : lines[m].k # "pkg_close"

\* C12: the shapes no container claims are declared after the last
\* container block, in the order of ingestion, and the members of each
\* block are declared in the order of ingestion too.
C12_IngestionOrderInGroups ==
    Rendered =>
        /\ \A j \in BlockOpens :
             DeclaredIn(lines, j, BlockClose(j))
               = SelectSeq(InputOrder,
                           LAMBDA g : ~IsPackageShape(g) /\ IsMember(g, lines[j].g[1]))
        /\ DeclaredIn(lines, LastClose + 1, Len(lines))
             = SelectSeq(InputOrder,
                         LAMBDA g : ~IsPackageShape(g) /\ Candidates(g) = {})
        /\ \A i \in 1..LastClose :
             IsDeclaration(lines[i]) =>
                \E j \in BlockOpens : j < i /\ i < BlockClose(j)

\* a block with two members, the first ingested lying below the second
C12_Witness ==
    /\ Rendered
    /\ \E j \in BlockOpens :
         LET ms == DeclaredIn(lines, j, BlockClose(j))
         IN  /\ Len(ms) = 2
             /\ IngestIndex(ms[1]) < IngestIndex(ms[2])
             /\ RectOf(ms[1]).y > RectOf(ms[2]).y

-----------------------------------------------------------------------------
(* The frame of the document: every direction, skin and autolayout        *)
(* option, a diagram with and without a name; both programs               *)

InitHeader ==
    \E name \in { NFoo, << >>, None } :
        \/ \E direction \in { "none", "LR", "TB" }, skin \in BOOLEAN,
              autolayout \in BOOLEAN, type \in { DLogical, DSequence } :
             Start([ DefaultOptions EXCEPT !.direction = direction, !.skin = skin,
                                           !.autolayout = autolayout ],
                   Repo(RunDiagram(name, type)))
        \/ \E direction \in { "", "left to right direction" },
              skin \in { "", "skinparam shadowing false" },
              autolayout \in { "", "autolayout" },
              type \in { DComponent, DSequence, DUseCase } :
             StartRun([ PackageOptions EXCEPT !.direction = direction, !.skin = skin,
                                              !.autolayout = autolayout,
                                              !.filename = << "o", "u", "t" >> ],
                      Repo(RunDiagram(name, type)))

SpecHeader == InitHeader /\ [][NextExport \/ NextRun]_vars

\* the lines of the document written, without the empty last line that
\* stands for its final newline
Document ==
    IF Output # << >> /\ Output[Len(Output)].t = << >>
    THEN SubSeq(Output, 1, Len(Output) - 1)
    ELSE Output

IsDirective(l) == l.k \in { "direction", "skin", "autolayout" }
IsFrame(l) == l.k \in { "start", "title", "end", "blank" } \/ IsDirective(l)

\* C13: the document begins with the start marker, immediately followed by
\* the title line, then the direction, skin and autolayout lines, then the
\* body, and its last line is the end marker; no directive precedes the
\* title.
C13_StartTitleDirectivesBodyEnd ==
    pc = "done" =>
        /\ Len(Document) >= 3
        /\ Document[1].k = "start"
        /\ Document[2].k = "title"
        /\ Document[Len(Document)].k = "end"
        /\ \A i \in 1..Len(Document) :
             /\ Document[i].k = "start" => i = 1
             /\ Document[i].k = "title" => i = 2
             /\ Document[i].k = "end" => i = Len(Document)
             /\ IsDirective(Document[i]) =>
                  /\ i > 2
                  /\ \A j \in 1..Len(Document) : ~IsFrame(Document[j]) => i < j

\* the same statement for the monolith alone
MonolithFrame == IsPackage \/ C13_StartTitleDirectivesBodyEnd

-----------------------------------------------------------------------------
(* The name of the file: diagram names and file name options with         *)
(* characters a file name should not hold; both programs                  *)

MaxNameLen == 2

NameChars == { "a", " ", "/" }

NameTexts == UNION { [ 1..n -> NameChars ] : n \in 0..MaxNameLen }

InitName ==
    \E name \in NameTexts \cup { None }, filename \in NameTexts \cup { None } :
        \/ Start([ DefaultOptions EXCEPT !.filename = filename ],
                 Repo(RunDiagram(name, DLogical)))
        \/ StartRun([ PackageOptions EXCEPT !.filename = filename ],
                    Repo(RunDiagram(name, DComponent)))

SpecName == InitName /\ [][NextExport \/ NextRun]_vars

FileNameChars == AlnumChars \cup { ".", "_", "-" }

\* the base names of the files written: the name without its extension
BaseNames ==
    { SubSeq(fs.files[i].k.name, 1, Len(fs.files[i].k.name) - 1) :
        i \in 1..Len(fs.files) }

\* C14: the base name of the file written, from the file name option or
\* from the diagram's name, holds only characters of [A-Za-z0-9._-].
C14_BaseNameCharsAllowed ==
    \A b \in BaseNames : Range(b) \subseteq FileNameChars

\* the same statement for the monolith alone
MonolithBaseName == IsPackage \/ C14_BaseNameCharsAllowed

-----------------------------------------------------------------------------
(* The arrow of a relation line: every kind of connector type and every   *)
(* direction value EA hands over, with and without a line colour          *)

DirUnspecified == << "U", "n", "s", "p", "e", "c", "i", "f", "i", "e", "d" >>
DirSourceDest ==
    << "S", "o", "u", "r", "c", "e", " ", "-", ">", " ",
       "D", "e", "s", "t", "i", "n", "a", "t", "i", "o", "n" >>
DirDestSource ==
    << "D", "e", "s", "t", "i", "n", "a", "t", "i", "o", "n", " ", "-", ">", " ",
       "S", "o", "u", "r", "c", "e" >>
DirBidirectional ==
    << "B", "i", "-", "D", "i", "r", "e", "c", "t", "i", "o", "n", "a", "l" >>

Directions ==
    { DirUnspecified, DirSourceDest, DirDestSource, DirBidirectional, << >>, None }

ConnectorTypes ==
    { TAssociation,
      << "D", "e", "p", "e", "n", "d", "e", "n", "c", "y" >>,
      << "A", "g", "g", "r", "e", "g", "a", "t", "i", "o", "n" >>,
      << "G", "e", "n", "e", "r", "a", "l", "i", "z", "a", "t", "i", "o", "n" >>,
      << "C", "o", "n", "t", "r", "o", "l", "F", "l", "o", "w" >>,
      << "N", "e", "s", "t", "i", "n", "g" >>,
      << >> }

InitArrow ==
    \E type \in ConnectorTypes, direction \in Directions :
        LET l8 == [ DLnk(8, G1, G2, 1, 2, type) EXCEPT !.Direction = direction ]
        IN  \/ \E colors \in BOOLEAN, color \in { -1, 255 } :
                 Start([ DefaultOptions EXCEPT !.include_colors = colors ],
                       Repo(Diagram(NFoo, DLogical, LinkShapes,
                                    << [ l8 EXCEPT !.LineColor = color ] >>)))
            \/ StartRun(PackageOptions,
                        Repo(Diagram(NFoo, DComponent, LinkShapes, << l8 >>)))

SpecArrow == InitArrow /\ [][NextExport \/ NextRun]_vars

TheLink == InputDiagram.DiagramLinks[1]

\* the arrow of a relation line ends in an arrowhead
HasArrowhead(l) == \E i \in 1..Len(l.t) : l.t[i] \in { ">", " --> ", " -> " }

OpenArrowType(type) == relation_for_type(type)[2] = << ">" >>

StructuralLines == { i \in 1..Len(Output) : Output[i].k = "rel" }

\* C15: for a connector whose type has the plain open arrow in the table,
\* the arrowhead is rendered exactly when the direction is bidirectional or
\* source-to-destination; every other direction gives an undirected line.
C15_ArrowheadFollowsDirection ==
    OutputComplete =>
        \A i \in StructuralLines :
            OpenArrowType(TheLink.Type) =>
                (HasArrowhead(Output[i])
                    <=> TheLink.Direction \in { DirSourceDest, DirBidirectional })

\* the same statement for the monolith alone, and the directions it
\* holds for there
MonolithArrowhead == IsPackage \/ C15_ArrowheadFollowsDirection
MonolithArrowheadButReversed ==
    IsPackage \/ TheLink.Direction = DirDestSource \/ C15_ArrowheadFollowsDirection

-----------------------------------------------------------------------------
(* The label of a relation line: a connector with and without a name and  *)
(* a stereotype, with and without hidden labels, under every edge label   *)
(* policy and in every strategy; both programs                            *)

InitLabel ==
    \E hiddenLabels \in BOOLEAN, name \in { << >>, << "n" >> },
       stereotype \in { << >>, << "s" >> }, type \in { TAssociation, TMessage } :
        LET l8 == [ DLnk(8, G1, G2, 1, 2, type) EXCEPT
                      !.Name = name, !.Stereotype = stereotype,
                      !.HiddenLabels = hiddenLabels ]
        IN  \/ \E edgeLabels \in { "stereotype", "name", "both", "none" },
                  dt \in { DLogical, DSequence } :
                 Start([ DefaultOptions EXCEPT !.edge_labels = edgeLabels ],
                       Repo(Diagram(NFoo, dt, LinkShapes, << l8 >>)))
            \/ \E edgeLabels \in { "", "stereotype", "name", "both", "none" },
                  dt \in { DComponent, DSequence, DUseCase } :
                 StartRun([ PackageOptions EXCEPT !.edge_labels = edgeLabels ],
                          Repo(Diagram(NFoo, dt, LinkShapes, << l8 >>)))

SpecLabel == InitLabel /\ [][NextExport \/ NextRun]_vars

\* a relation line without a label: no separator, no name, no stereotype
Unlabelled(l) == Range(l.t) \cap { " : ", "n", "s", "<<", ">>" } = {}

\* C16: the relation line of a connector with hidden labels carries no
\* label at all: no name, no stereotype and no " : " separator, under
\* every edge label policy and in every strategy.
C16_HiddenLabelsNoLabel ==
    OutputComplete =>
        \A i \in RelationLines : TheLink.HiddenLabels => Unlabelled(Output[i])

\* what the monolith's structural strategy does keep: the name is left out
MonolithHidesName ==
    (OutputComplete /\ ~IsPackage) =>
        \A i \in StructuralLines : TheLink.HiddenLabels => "n" \notin Range(Output[i].t)

-----------------------------------------------------------------------------
(* The interaction strategy: a Sequence diagram of two shapes (classes    *)
(* and actors) and two connectors of message and non-message types, in    *)
(* both ingestion orders; both programs                                   *)

InitSequence ==
    \E ta \in { TClass, TActor }, tb \in { TClass, TActor },
       t7 \in { TMessage, DSequence, TAssociation },
       t8 \in { TMessage, DSequence, TAssociation }, swapped \in BOOLEAN :
        LET objs == << DObj(G1, 1, << "A" >>, ta, 0, 0, 1, 1),
                       DObj(G2, 2, << "B" >>, tb, 0, 0, 1, 1) >>
            l7 == DLnk(7, G1, G2, 1, 2, t7)
            l8 == DLnk(8, G2, G1, 2, 1, t8)
            lnks == IF swapped THEN << l8, l7 >> ELSE << l7, l8 >>
        IN  \/ Start(DefaultOptions, Repo(Diagram(NFoo, DSequence, objs, lnks)))
            \/ StartRun(PackageOptions, Repo(Diagram(NFoo, DSequence, objs, lnks)))

SpecSequence == InitSequence /\ [][NextExport \/ NextRun]_vars

MessageLike(l) ==
    Lower(OrElse(l.Type, << >>)) \in { Lower(TMessage), Lower(DSequence) }

\* the shapes named by the participant lines and the connectors named by
\* the arrow lines, in the order of the text
ParticipantOrder ==
    LET ps == SelectSeq(Output, LAMBDA l : l.k = "participant")
    IN  [ i \in 1..Len(ps) |-> ps[i].g[1] ]
ArrowOrder ==
    LET as == SelectSeq(Output, LAMBDA l : l.k \in { "rel", "message" })
    IN  [ i \in 1..Len(as) |-> as[i].g[3] ]

\* C17: the interaction strategy emits one participant or actor line per
\* shape in ingestion order, then one arrow line for each connector of a
\* message-like type and for no other connector, in ingestion order.
C17_ParticipantsThenMessages ==
    OutputComplete =>
        /\ ParticipantOrder =
             [ i \in 1..Len(InputDiagram.DiagramObjects) |->
                 InputDiagram.DiagramObjects[i].InstanceGUID ]
        /\ LET ms == SelectSeq(InputDiagram.DiagramLinks, MessageLike)
           IN  ArrowOrder = [ i \in 1..Len(ms) |-> StrOfNat(ms[i].ConnectorID) ]
        /\ \A i, j \in 1..Len(Output) :
             (Output[i].k = "participant" /\ Output[j].k \in { "rel", "message" })
                => i < j

\* the same statement for the monolith alone
MonolithSequence == IsPackage \/ C17_ParticipantsThenMessages

-----------------------------------------------------------------------------
(* The overlap of two rectangles: a container and another shape at every  *)
(* place of a grid, apart, touching, crossing and nested                  *)

OvCoord == 2
OvSize == 2

InitOverlap ==
    \E ax, ay, bx, by \in 0..OvCoord :
    \E aw, ah, bw, bh \in 0..OvSize :
        Start(DefaultOptions,
              Repo(Diagram(NFoo, DLogical,
                           << DObj(G1, 1, NP, TPackage, ax, ay, aw, ah),
                              DObj(G2, 2, NS, TClass, bx, by, bw, bh) >>,
                           << >>)))

SpecOverlap == InitOverlap /\ [][NextExport]_vars

\* the unit squares a rectangle covers
Cells(r) == (r.x .. (r.x + r.w - 1)) \X (r.y .. (r.y + r.h - 1))

\* the rectangles are apart or touch along an edge or at a corner
Apart(a, b) ==
    \/ a.x + a.w <= b.x \/ b.x + b.w <= a.x
    \/ a.y + a.h <= b.y \/ b.y + b.h <= a.y

\* C18: overlap_area(a, b) is the area of the intersection rectangle of a
\* and b; it is 0 when the rectangles do not intersect, touching along an
\* edge or at a corner included; it is never negative and is symmetric.
C18_OverlapIsIntersectionArea ==
    Gathered =>
        LET a == RectOf(G1)
            b == RectOf(G2)
        IN  /\ overlap_area(a, b) = Cardinality(Cells(a) \cap Cells(b))
            /\ Apart(a, b) => overlap_area(a, b) = 0
            /\ overlap_area(a, b) >= 0
            /\ overlap_area(a, b) = overlap_area(b, a)

\* two rectangles of positive area that meet at one corner only
C18_Witness ==
    /\ Gathered
    /\ area(RectOf(G1)) > 0 /\ area(RectOf(G2)) > 0
    /\ RectOf(G1).x + RectOf(G1).w = RectOf(G2).x
    /\ RectOf(G1).y + RectOf(G1).h = RectOf(G2).y
    /\ overlap_area(RectOf(G1), RectOf(G2)) = 0

-----------------------------------------------------------------------------
(* Normalization: one shape with every combination of the four edges      *)
(* the modelling tool can hand over, in its own convention                *)

MaxEdge == 1

InitRect ==
    \E left, right, top, bottom \in (-MaxEdge)..MaxEdge :
    \E type \in { TClass, TPackage } :
        Start(DefaultOptions,
              Repo(Diagram(NFoo, DLogical,
                           << [ DObj(G1, 1, NS, type, 0, 0, 0, 0) EXCEPT
                                  !.Left = left, !.Right = right,
                                  !.Top = top, !.Bottom = bottom ] >>,
                           << >>)))

SpecRect == InitRect /\ [][NextExport]_vars

\* the shape as the tool hands it over
TheShape == InputDiagram.DiagramObjects[1]

\* C19: after normalization every rectangle stored in the model has
\* w >= 0 and h >= 0, for every placed shape the source supplies.
C19_StoredRectanglesNonNegative ==
    Gathered => \A g \in ElementGuids : RectOf(g).w >= 0 /\ RectOf(g).h >= 0

\* normalization as the claim writes it, and the shapes for which the
\* stored rectangle has no negative side: those with their edges in order
RectIsNormalized ==
    Gathered =>
        RectOf(G1) = [ x |-> TheShape.Left, y |-> -TheShape.Top,
                       w |-> TheShape.Right - TheShape.Left,
                       h |-> -(TheShape.Bottom - TheShape.Top) ]
EdgesInOrderNonNegative ==
    (Gathered /\ TheShape.Left <= TheShape.Right /\ TheShape.Bottom <= TheShape.Top)
        => C19_StoredRectanglesNonNegative

-----------------------------------------------------------------------------
(* Nested diagrams: a diagram with a shape P that stands for a second     *)
(* diagram, which holds a shape Q that stands for a third, which holds    *)
(* the shape S; every origin of P, Q and S on a grid                      *)

MaxOffset == 1

InitNested ==
    \E px, py, qx, qy, sx, sy \in 0..MaxOffset :
        LET p == [ DObj(G1, 1, NP, TUMLDiagram, px, py, 2, 2) EXCEPT !.SubDiagram = 2 ]
            q == [ DObj(G2, 2, NQ, TUMLDiagram, qx, qy, 1, 1) EXCEPT !.SubDiagram = 3 ]
            s == DObj(G3, 3, NS, TClass, sx, sy, 1, 1)
        IN  Start(DefaultOptions,
                  [ Repo(Diagram(NFoo, DLogical, << p >>, << >>)) EXCEPT
                      !.diagrams = @ \o << Diagram(NQ, DLogical, << q >>, << >>),
                                           Diagram(NS, DLogical, << s >>, << >>) >> ])

SpecNested == InitNested /\ [][NextExport]_vars

\* the shape with identity g as the tool hands it over, in its own diagram
ShapeOf(g) ==
    CHOOSE o \in UNION { Range(repo.diagrams[d].DiagramObjects) :
                           d \in 1..Len(repo.diagrams) } : o.InstanceGUID = g

\* the normalized rectangle of shape g, moved by the stored origin of its
\* parent shape
TranslatedBy(g, parent) ==
    [ x |-> ShapeOf(g).Left + RectOf(parent).x,
      y |-> (-ShapeOf(g).Top) + RectOf(parent).y,
      w |-> ShapeOf(g).Right - ShapeOf(g).Left,
      h |-> -(ShapeOf(g).Bottom - ShapeOf(g).Top) ]

\* C20: at every depth the stored rectangle of a child shape is its own
\* normalized rectangle translated by the origin of its parent shape in
\* the top-level space, so a grandchild is moved by the origins of its
\* parent and of its grandparent together.
C20_OffsetsAccumulate ==
    Gathered =>
        /\ RectOf(G2) = TranslatedBy(G2, G1)
        /\ RectOf(G3) = TranslatedBy(G3, G2)
        /\ RectOf(G3).x = ShapeOf(G3).Left + ShapeOf(G2).Left + ShapeOf(G1).Left
        /\ RectOf(G3).y = (-ShapeOf(G3).Top) + (-ShapeOf(G2).Top) + (-ShapeOf(G1).Top)

\* what holds: the first level is translated by its parent's origin, and
\* the second level by the origin of its parent inside the parent's own
\* diagram
OneLevelTranslated ==
    Gathered =>
        /\ ElementGuids = { G1, G2, G3 }
        /\ RectOf(G2) = TranslatedBy(G2, G1)
        /\ RectOf(G3).x = ShapeOf(G3).Left + ShapeOf(G2).Left
        /\ RectOf(G3).y = (-ShapeOf(G3).Top) + (-ShapeOf(G2).Top)

-----------------------------------------------------------------------------
(* Shapes apart from a container: SpecOverlap *)

SharesArea(a, b) == Cells(a) \cap Cells(b) # {}

\* C21: a shape whose rectangle shares no area with a container's
\* rectangle and whose centroid is outside the container's closed bounds
\* is not a member of the container, degenerate rectangles of zero width
\* or height included.
C21_ApartShapeIsNoMember ==
    Gathered =>
        \A p \in PackageGuids : \A s \in ElementGuids \ { p } :
            (~SharesArea(RectOf(s), RectOf(p)) /\ ~CentroidIn(RectOf(s), RectOf(p)))
                => ~IsMember(s, p)

\* the same statement for the shapes of positive area
ApartShapeWithAreaIsNoMember ==
    Gathered =>
        \A p \in PackageGuids : \A s \in ElementGuids \ { p } :
            (/\ area(RectOf(s)) > 0
             /\ ~SharesArea(RectOf(s), RectOf(p))
             /\ ~CentroidIn(RectOf(s), RectOf(p)))
                => ~IsMember(s, p)

-----------------------------------------------------------------------------
(* The writer alone: one PlantUMLWriter and a caller that makes any       *)
(* sequence of start, writeln, extend and end calls                       *)

\* no call is made once the buffer holds more than MaxBuf lines
MaxBuf == 3

WriterLines == { Line("decl", << >>, << "a" >>), Blank }
WriterTitles == { NFoo, << >>, None }

\* a writer just constructed; pc names the last call made on it
InitWriter ==
    \E skin \in { "", "skinparam shadowing false" }, autolayout \in { "", "autolayout" } :
        /\ cfg = [ PackageOptions EXCEPT !.skin = skin, !.autolayout = autolayout ]
        /\ repo = Repo(RunDiagram(NFoo, DComponent))
        /\ entropy = [ urandom |-> << >>, hash |-> << >> ]
        /\ pc = "made"
        /\ ex = NewExporter(DefaultOptions)
        /\ lines = << >>
        /\ dm = NoDiagram
        /\ w = NewWriter(skin, autolayout)
        /\ err = ""
        /\ fs = EmptyFs
        /\ run = 1
        /\ prev = << >>

Callable == pc \in { "made", "start", "writeln", "extend", "end" } /\ Len(w.buf) <= MaxBuf

\* out.start(title)
CallStart ==
    /\ Callable
    /\ \E title \in WriterTitles : w' = WriterStart(w, title)
    /\ pc' = "start"
    /\ UNCHANGED << cfg, repo, entropy, ex, lines, dm, err, fs, run, prev >>

\* out.writeln(line)
CallWriteln ==
    /\ Callable
    /\ \E l \in WriterLines : w' = WriterExtend(w, << l >>)
    /\ pc' = "writeln"
    /\ UNCHANGED << cfg, repo, entropy, ex, lines, dm, err, fs, run, prev >>

\* out.extend(lines)
CallExtend ==
    /\ Callable
    /\ \E ls \in { << >> } \cup { << l, Blank >> : l \in WriterLines } :
         w' = WriterExtend(w, ls)
    /\ pc' = "extend"
    /\ UNCHANGED << cfg, repo, entropy, ex, lines, dm, err, fs, run, prev >>

\* out.end()
CallEnd ==
    /\ Callable
    /\ w' = WriterEnd(w)
    /\ pc' = "end"
    /\ UNCHANGED << cfg, repo, entropy, ex, lines, dm, err, fs, run, prev >>

NextWriter ==
    \/ CallStart
    \/ CallWriteln
    \/ CallExtend
    \/ CallEnd

SpecWriter == InitWriter /\ [][NextWriter]_vars

IsPrefix(s, t) == Len(s) <= Len(t) /\ SubSeq(t, 1, Len(s)) = s
Added == SubSeq(w'.buf, Len(w.buf) + 1, Len(w'.buf))
KindsOf(ls) == [ i \in 1..Len(ls) |-> ls[i].k ]

\* the kinds of the lines the first start() writes: the start marker, the
\* skin and autolayout lines of the writer, and a title or none
StartBlocks ==
    { << "start" >> \o (IF w.skin # "" THEN << "skin" >> ELSE << >>)
                    \o (IF w.autolayout # "" THEN << "autolayout" >> ELSE << >>)
                    \o t : t \in { << >>, << "title" >> } }

\* C22: over any sequence of start, writeln, extend and end calls on one
\* writer, start() appends "@startuml" with the skin, autolayout and title
\* lines on its first call only and end() appends "@enduml" on its first
\* call only; a repeated start() or end() leaves the buffer unchanged, and
\* no call removes or reorders lines of the buffer.
C22_StartAndEndOnce ==
    [][ /\ IsPrefix(w.buf, w'.buf)
        /\ (pc' = "start" /\ w.started) => w'.buf = w.buf
        /\ (pc' = "start" /\ ~w.started) => KindsOf(Added) \in StartBlocks
        /\ (pc' = "end" /\ w.ended) => w'.buf = w.buf
        /\ (pc' = "end" /\ ~w.ended) => KindsOf(Added) = << "end" >>
        /\ pc' \in { "writeln", "extend" } =>
             \A i \in 1..Len(Added) : Added[i].k \notin { "start", "end" } ]_vars

\* start() called again after lines were written and the writer was ended:
\* the buffer still ends with the end marker and holds one start marker
C22_Witness ==
    /\ pc = "start"
    /\ Len(w.buf) >= 3
    /\ w.buf[Len(w.buf)].k = "end"
    /\ w.buf[1].k = "start"
    /\ Cardinality({ i \in 1..Len(w.buf) : w.buf[i].k = "start" }) = 1

-----------------------------------------------------------------------------
(* Shapes and containers in the grouped text: SpecGroup *)

DeclarationsOf(g) == { i \in 1..Len(lines) : IsDeclaration(lines[i]) /\ lines[i].g = << g >> }
HeadersOf(g) == { j \in BlockOpens : lines[j].g = << g >> }

\* C23: in the structural rendering every shape that is not a Package is
\* declared at least once, in a container block or among the leftovers; a
\* Package is never declared as an element, it is the header of a
\* container block only, and the blocks of containers that lie inside
\* other containers are flat siblings: no block opens inside another.
C23_ShapesDeclaredPackagesAreBlocks ==
    Rendered =>
        /\ \A g \in ElementGuids :
             IF IsPackageShape(g)
             THEN DeclarationsOf(g) = {} /\ Cardinality(HeadersOf(g)) = 1
             ELSE DeclarationsOf(g) # {} /\ HeadersOf(g) = {}
        /\ \A j \in BlockOpens :
             \A m \in (j + 1)..(BlockClose(j) - 1) : lines[m].k # "pkg_open"

\* a container that is a member of another container, and a class that is
\* a member of both: two sibling blocks, the class declared
C23_Witness ==
    /\ Rendered
    /\ \E p, q \in PackageGuids : \E s \in ElementGuids :
         /\ p # q /\ IsMember(q, p)
         /\ ~IsPackageShape(s) /\ IsMember(s, q)
         /\ DeclarationsOf(s) # {}
         /\ DeclarationsOf(q) = {}
         /\ \E j \in HeadersOf(p), k \in HeadersOf(q) : BlockClose(j) < k \/ BlockClose(k) < j

====
